---- MODULE Spec2Model ----
(***************************************************************************)
(* A model of the native binding layer of three-native:                    *)
(*   src/src/js_runtime.c          the Rectangle / FilledRectangle example *)
(*                                 classes and the host API                *)
(*   src/deps/mquickjs/mqjs_stdlib.c  the class registry and member tables *)
(* The engine (allocation, collection, argument conversion, the protected- *)
(* reference stack) is consumed through its primitives only.               *)
(***************************************************************************)
EXTENDS Integers, Sequences, FiniteSets, TLC

VARIABLES
    heap,     \* script objects ever allocated: class_id, opaque pointer, alive
    blocks,   \* malloc'ed opaque blocks: memory image and lifecycle
    roots,    \* objects script code holds a reference to
    gcrefs,   \* the engine's stack of protected references (ctx->top_gc_ref)
    frames,   \* stack of native constructor calls in progress
    ret,      \* what the most recent native call returned
    crashed,  \* the process took a fatal fault
    reg,      \* the most recent query of the static class registry
    host      \* the host's runtime handle and what it holds

vars == <<heap, blocks, roots, gcrefs, frames, ret, crashed, reg, host>>

----------------------------------------------------------------------------
(* Bounds of the model.                                                    *)

\* script objects allocated during one run
MaxObjs == 2
\* native constructor calls nested through re-entrant script
MaxDepth == 2
\* evaluations the host runs on one handle
MaxEvals == 3
\* runtimes the host creates one after the other
MaxRuntimes == 2

----------------------------------------------------------------------------
(* Class ids.                                                              *)

\* the built-in class ids the registry of mqjs_stdlib.c names, in order of
\* first appearance; a class id is the position in this list minus one
BuiltinClassNames ==
    << "JS_CLASS_OBJECT", "JS_CLASS_CLOSURE", "JS_CLASS_NUMBER",
       "JS_CLASS_BOOLEAN", "JS_CLASS_STRING", "JS_CLASS_ARRAY",
       "JS_CLASS_ERROR", "JS_CLASS_EVAL_ERROR", "JS_CLASS_RANGE_ERROR",
       "JS_CLASS_REFERENCE_ERROR", "JS_CLASS_SYNTAX_ERROR",
       "JS_CLASS_TYPE_ERROR", "JS_CLASS_URI_ERROR",
       "JS_CLASS_INTERNAL_ERROR", "JS_CLASS_ARRAY_BUFFER",
       "JS_CLASS_TYPED_ARRAY", "JS_CLASS_UINT8C_ARRAY",
       "JS_CLASS_INT8_ARRAY", "JS_CLASS_UINT8_ARRAY",
       "JS_CLASS_INT16_ARRAY", "JS_CLASS_UINT16_ARRAY",
       "JS_CLASS_INT32_ARRAY", "JS_CLASS_UINT32_ARRAY",
       "JS_CLASS_FLOAT32_ARRAY", "JS_CLASS_FLOAT64_ARRAY",
       "JS_CLASS_REGEXP", "JS_CLASS_DATE" >>

ClassIdOf(name) ==
    CHOOSE i \in 0..(Len(BuiltinClassNames) - 1) : BuiltinClassNames[i + 1] = name

\* the first class id free for user classes
JS_CLASS_USER == Len(BuiltinClassNames)

JS_CLASS_RECTANGLE == JS_CLASS_USER + 0
\* the id of Rectangle used a second time
JS_CLASS_FILLED_RECTANGLE_same_id == JS_CLASS_USER + 0
JS_CLASS_FILLED_RECTANGLE == JS_CLASS_USER + 1
JS_CLASS_COUNT == JS_CLASS_USER + 2

\* the reserved bit of argc that signals a call through `new`
FRAME_CF_CTOR == 65536

----------------------------------------------------------------------------
(* Layout of the opaque blocks: a block is a sequence of int slots.        *)

\* typedef struct { int x; int y; } RectangleData;
RectangleData_x == 1
RectangleData_y == 2
RectangleData_size == 2

\* typedef struct { int color; RectangleData parent; } FilledRectangleData;
FilledRectangleData_parent_after_color ==
    3 - RectangleData_size

\* typedef struct { RectangleData parent; int color; } FilledRectangleData;
FilledRectangleData_parent == 0
FilledRectangleData_color == 3
FilledRectangleData_size == 3

----------------------------------------------------------------------------
(* Script values passed as arguments.  A number is q * 2^32 + v with v in  *)
(* the int32 range; it is an int32 exactly when q = 0.                     *)

Num(q, v) == [k |-> "num", q |-> q, v |-> v, throws |-> FALSE]
Undefined == [k |-> "undefined", q |-> 0, v |-> 0, throws |-> FALSE]
\* an object whose valueOf runs script and then yields int32 v, or throws
ObjValueOf(v) == [k |-> "object", q |-> 0, v |-> v, throws |-> FALSE]
ObjThrows == [k |-> "object", q |-> 0, v |-> 0, throws |-> TRUE]

IsInt32(a) == a.k = "num" /\ a.q = 0

\* the argument vectors script passes to the constructors
ArgVectors ==
    { <<Num(0, 3), Num(0, 4), Num(0, 7)>>,
      <<Num(0, 7), Num(0, 3), Num(0, 4)>>,
      <<Num(1, 3), Num(0, 4), Num(0, 7)>>,
      <<ObjValueOf(3), Num(0, 4), Num(0, 7)>>,
      <<ObjThrows, Num(0, 4), Num(0, 7)>>,
      <<Num(0, 3), ObjThrows, Num(0, 7)>>,
      <<Num(0, 3), Num(0, 4), ObjThrows>> }

\* values a read of freed or foreign memory may produce
JunkVals == {0, 99}

----------------------------------------------------------------------------
(* Engine primitives.                                                      *)

\* JS_ToInt32 on a value that converts without exception: numbers wrap
\* modulo 2^32 into the int32 range, undefined converts to 0
JS_ToInt32(a) == IF a.k = "undefined" THEN 0 ELSE a.v

\* JS_NewInt32: the script number holding int32 v
JS_NewInt32(v) == Num(0, v)

\* JS_ThrowTypeError sets the pending exception and yields JS_EXCEPTION
JS_ThrowTypeError == [kind |-> "exception", exc |-> "TypeError"]

\* JS_PushGCRef: a new slot holding JS_UNDEFINED on top of the stack
JS_PushGCRef(refs) == Append(refs, [val |-> 0, leaked |-> FALSE])

\* JS_PopGCRef: ctx->top_gc_ref = ref->prev
JS_PopGCRef(refs, ref) == SubSeq(refs, 1, ref - 1)

\* the objects the collector treats as live: what script holds and what the
\* protected-reference stack holds; a slot left behind by a returned frame
\* is dangling and may or may not still show its old value
Reachable(useLeaked) ==
    roots \cup { gcrefs[i].val : i \in { j \in DOMAIN gcrefs :
                                          ~gcrefs[j].leaked \/ useLeaked } }

Registered(o) == \E i \in DOMAIN gcrefs : ~gcrefs[i].leaked /\ gcrefs[i].val = o

----------------------------------------------------------------------------
(* Native call frames.  A frame's pc is the source line it is about to     *)
(* execute.  A statement is an operator on a machine m: the engine state   *)
(* it works on (heap, blocks, gcrefs), the frame f, and how far the call   *)
(* got: "run", "script" (re-entered script), "return" or "fault".          *)

Top == frames[Len(frames)]

\* script code is executing: at top level, or re-entered from a conversion
ScriptRunning == ~crashed /\ (IF frames = <<>> THEN TRUE ELSE Top.inscript)

\* the frame on top belongs to fn and is about to execute line pc
At(fn, pc) ==
    /\ ~crashed
    /\ IF frames = <<>> THEN FALSE ELSE Top.fn = fn /\ Top.pc = pc

NoRet ==
    [fn |-> "none", kind |-> "none", val |-> Undefined, obj |-> 0,
     exc |-> "none", new |-> FALSE, recv |-> 0, cls |-> -1,
     read |-> FALSE, dref |-> 0, dobj |-> 0, dblk |-> 0, steps |-> <<>>,
     dangling |-> FALSE, call |-> <<>>, argv |-> <<>>]

\* the machine on which the frame f runs; objOK and memOK say whether the
\* next object allocation and the next malloc succeed, reuse names the
\* freed block whose memory the next malloc hands out again (0: fresh
\* memory)
Machine(f, objOK, memOK) ==
    [heap |-> heap, blocks |-> blocks, gcrefs |-> gcrefs, f |-> f,
     out |-> "run", ret |-> NoRet, objOK |-> objOK, memOK |-> memOK,
     reuse |-> 0]

Ready(m, pc) == m.out = "run" /\ m.f.pc = pc

\* the statement is done: go on at line pc
Goto(m, f, pc, what) ==
    [m EXCEPT !.f = [f EXCEPT !.pc = pc, !.steps = Append(@, what)]]

\* the function returns.  Its record seen by the caller holds the growth of
\* the protected-reference stack, the heap and the malloc'ed blocks between
\* entry and return.  A slot the frame pushed and did not pop stays linked
\* in the stack and dangles from here on.
Return(m, kind, obj, exc, what) ==
    LET f == m.f
        refs == [i \in DOMAIN m.gcrefs |->
                   IF f.ref # 0 /\ i >= f.ref
                   THEN [m.gcrefs[i] EXCEPT !.leaked = TRUE]
                   ELSE m.gcrefs[i]]
    IN  [m EXCEPT !.out = "return",
                  !.gcrefs = refs,
                  !.ret = [NoRet EXCEPT
                             !.fn = f.fn, !.kind = kind, !.obj = obj,
                             !.exc = exc, !.new = f.new,
                             !.dref = Len(refs) - f.depth0,
                             !.dobj = Len(m.heap) - f.nobj0,
                             !.dblk = Len(m.blocks) - f.nblk0,
                             !.steps = Append(f.steps, what)]]

\* the process takes a fatal fault in fn: its memory is gone
Fault(fn, new) ==
    /\ crashed' = TRUE
    /\ heap' = <<>>
    /\ blocks' = <<>>
    /\ roots' = {}
    /\ gcrefs' = <<>>
    /\ frames' = <<>>
    /\ ret' = [NoRet EXCEPT !.fn = fn, !.kind = "fault", !.new = new]

\* the machine's outcome becomes the next state; stack is the frame stack
\* with the running frame on top.  Script keeps an instance returned to it.
Commit(stack, m) ==
    /\ IF m.out = "fault"
       THEN Fault(m.f.fn, m.f.new)
       ELSE /\ heap' = m.heap
            /\ blocks' = m.blocks
            /\ gcrefs' = m.gcrefs
            /\ crashed' = crashed
            /\ IF m.out = "return"
               THEN /\ frames' = SubSeq(stack, 1, Len(stack) - 1)
                    /\ ret' = m.ret
                    /\ roots' = IF m.ret.kind = "value"
                                THEN roots \cup {m.ret.obj} ELSE roots
               ELSE /\ frames' = [stack EXCEPT ![Len(stack)] = m.f]
                    /\ ret' = ret
                    /\ roots' = roots
    /\ UNCHANGED <<reg, host>>

\* the number of arguments script passes with the vector w
NArgs(w) == Cardinality({i \in 1..Len(w) : w[i].k # "undefined"})

\* the frame of a call of fn with n arguments, with or without `new`
NewFrame(fn, n, new, pc) ==
    [fn |-> fn, argc |-> n + (IF new THEN FRAME_CF_CTOR ELSE 0),
     new |-> new, args |-> <<>>, pc |-> pc, inscript |-> FALSE,
     obj |-> 0, d |-> 0, ref |-> 0, depth0 |-> Len(gcrefs),
     nobj0 |-> Len(heap), nblk0 |-> Len(blocks), steps |-> <<>>]

\* the values argv[i] can have in the frame f, given what f has read.  The
\* argument vector is fixed by the caller and nothing can change it during
\* the call, so a frame keeps only the prefix `args` it has read so far and
\* argv[i] is drawn when it is first read.
ArgAt(f, i) ==
    IF f.inscript THEN { f.args[i + 1] }
    ELSE { w[i + 1] : w \in { v \in ArgVectors :
                                /\ NArgs(v) = f.argc % FRAME_CF_CTOR
                                /\ SubSeq(v, 1, i) = f.args } }

\* the constructor-bit test left out: every call is taken for `new`
HasCtorBit_ignored(argc) == TRUE

\* argc & FRAME_CF_CTOR
HasCtorBit(argc) == (argc \div FRAME_CF_CTOR) % 2 = 1

\* argc & ~FRAME_CF_CTOR
ClearCtorBit(argc) ==
    argc - ((argc \div FRAME_CF_CTOR) % 2) * FRAME_CF_CTOR

\* JS_NewObjectClassUser: a new instance
NewObject(class_id) ==
    [class_id |-> class_id, opaque |-> 0, alive |-> TRUE, int32_args |-> <<>>]

\* malloc(size): a block of uninitialised memory
NewBlock(size) ==
    [mem |-> [i \in 1..size |-> 0], written |-> {}, state |-> "Unattached",
     owner |-> 0, attached |-> 0, finalized |-> 0, freed |-> 0, sweeps |-> 0,
     uaf |-> FALSE, addr |-> 0, clobbered |-> FALSE]

\* obj = JS_NewObjectClassUser(ctx, class_id): the instance, or JS_EXCEPTION
\* (-1) when the memory budget is exhausted
JS_NewObjectClassUser(m, class_id) ==
    IF m.objOK THEN [m EXCEPT !.heap = Append(@, NewObject(class_id))] ELSE m

NewObjectResult(m) == IF m.objOK THEN Len(m.heap) + 1 ELSE -1

\* the freed blocks whose memory the allocator can hand out again: no
\* block in use lies at their address
Reusable ==
    { b \in DOMAIN blocks :
         /\ blocks[b].freed > 0
         /\ \A t \in DOMAIN blocks :
               blocks[t].addr = blocks[b].addr => blocks[t].freed > 0 }

\* d = malloc(size): the block, or NULL (0).  The block lies at a fresh
\* address or at the address of the freed block m.reuse
malloc(m, size) ==
    IF m.memOK
    THEN [m EXCEPT !.blocks =
             Append(@, [NewBlock(size) EXCEPT
                          !.addr = IF m.reuse = 0 THEN Len(m.blocks) + 1
                                   ELSE m.blocks[m.reuse].addr])]
    ELSE m

MallocResult(m) == IF m.memOK THEN Len(m.blocks) + 1 ELSE 0

\* JS_SetOpaque(ctx, obj, d): the block d becomes Attached to obj; a value
\* that is no object (JS_EXCEPTION) faults
JS_SetOpaque(m, obj, d) ==
    IF obj = -1 THEN [m EXCEPT !.out = "fault"]
    ELSE [m EXCEPT !.heap[obj].opaque = d,
                   !.blocks = IF d = 0 THEN @
                              ELSE [@ EXCEPT ![d].state = "Attached",
                                             ![d].owner = obj,
                                             ![d].attached = @ + 1]]

\* *(&d->slot) = v; a store through NULL faults, a store into a freed block
\* is a use after free: it lands in whatever block lies at that address
\* now
Store(m, d, slot, v) ==
    IF d = 0 THEN [m EXCEPT !.out = "fault"]
    ELSE LET hit(t) == /\ t # d
                       /\ m.blocks[d].freed > 0
                       /\ m.blocks[t].freed = 0
                       /\ m.blocks[t].addr = m.blocks[d].addr
                       /\ slot \in DOMAIN m.blocks[t].mem
         IN  [m EXCEPT !.blocks =
                [t \in DOMAIN @ |->
                   IF t = d
                   THEN [m.blocks[t] EXCEPT !.mem[slot] = v,
                                     !.written = @ \cup {slot},
                                     !.uaf = @ \/ m.blocks[d].state = "Finalized"]
                   ELSE IF hit(t)
                   THEN [m.blocks[t] EXCEPT !.mem[slot] = v,
                                            !.clobbered = TRUE]
                   ELSE m.blocks[t]]]

\* if (JS_ToInt32(ctx, &d->slot, argv[i])) return JS_EXCEPTION; with a the
\* value of argv[i].  An object argument first re-enters script (its
\* valueOf); when script comes back the conversion has its int32 or has
\* failed.  Any other value converts at once.
ConvertArg(m, pc, i, slot, next, a) ==
    LET f == m.f
        what == IF i = 0 THEN "conv0" ELSE IF i = 1 THEN "conv1" ELSE "conv2"
        g == [f EXCEPT !.args = Append(@, a), !.steps = Append(@, what)]
    IN  IF ~Ready(m, pc) THEN m
        ELSE IF ~f.inscript /\ a.k = "object"
        THEN [m EXCEPT !.f = [g EXCEPT !.inscript = TRUE], !.out = "script"]
        ELSE IF f.inscript /\ a.throws
        THEN Return(m, "exception", 0, "Error", "fail")
        ELSE LET h == IF f.inscript THEN [f EXCEPT !.inscript = FALSE] ELSE g
             IN  Store([m EXCEPT !.f = [h EXCEPT !.pc = next]],
                       f.d, slot, JS_ToInt32(a))

\* the int32 arguments an instance was built from, when all of them were
\* int32 numbers (kept with the instance for the round-trip properties)
Int32Args(args, n) ==
    IF \A i \in 1..n : IsInt32(args[i]) THEN SubSeq(args, 1, n) ELSE <<>>

\* return obj, an instance, to script
ReturnObject(m, obj, n) ==
    Return([m EXCEPT !.heap[obj].int32_args = Int32Args(m.f.args, n)],
           "value", obj, "none", "return")

----------------------------------------------------------------------------
(* js_rectangle_constructor, line 30-47.                                   *)

\* line 36-38: reject a call without `new`, else mask the bit out of argc
Rect_L36(m) ==
    IF ~Ready(m, 36) THEN m
    ELSE IF ~HasCtorBit(m.f.argc)
    THEN Return(m, "exception", 0, JS_ThrowTypeError.exc, "throw")
    ELSE Goto(m, [m.f EXCEPT !.argc = ClearCtorBit(@)], 39, "check")

\* line 39: obj = JS_NewObjectClassUser(ctx, JS_CLASS_RECTANGLE)
Rect_L39(m) ==
    IF ~Ready(m, 39) THEN m
    ELSE Goto(JS_NewObjectClassUser(m, JS_CLASS_RECTANGLE),
              [m.f EXCEPT !.obj = NewObjectResult(m)], 40, "newobject")

\* line 40 with one static block shared by all instances
Rect_L40_static_block(m) ==
    IF ~Ready(m, 40) THEN m
    ELSE IF m.blocks # <<>> THEN Goto(m, [m.f EXCEPT !.d = 1], 41, "malloc")
    ELSE Goto(malloc(m, RectangleData_size),
              [m.f EXCEPT !.d = MallocResult(m)], 41, "malloc")

\* line 40: d = malloc(sizeof(*d))
Rect_L40(m) ==
    IF ~Ready(m, 40) THEN m
    ELSE Goto(malloc(m, RectangleData_size),
              [m.f EXCEPT !.d = MallocResult(m)], 41, "malloc")

\* line 41 left out: the block is never attached
Rect_L41_unattached(m) ==
    IF ~Ready(m, 41) THEN m ELSE Goto(m, m.f, 42, "skip")

\* line 41: JS_SetOpaque(ctx, obj, d)
Rect_L41(m) ==
    IF ~Ready(m, 41) THEN m
    ELSE Goto(JS_SetOpaque(m, m.f.obj, m.f.d), m.f, 42, "setopaque")

\* line 42-43: d->x from argv[0]
Rect_L42(m, a) == ConvertArg(m, 42, 0, RectangleData_x, 44, a)

\* line 44-45: d->y from argv[1]
Rect_L44(m, a) == ConvertArg(m, 44, 1, RectangleData_y, 46, a)

\* line 46: return obj
Rect_L46(m) ==
    IF ~Ready(m, 46) THEN m ELSE ReturnObject(m, m.f.obj, 2)

\* script calls Rectangle(...) or new Rectangle(...): the function runs
\* up to its first argument conversion
CallRectangle ==
    /\ ScriptRunning
    /\ Len(frames) < MaxDepth
    /\ \E n \in 0..3, new \in BOOLEAN, objOK \in BOOLEAN, memOK \in BOOLEAN,
          reuse \in {0} \cup Reusable :
         /\ new => /\ Len(heap) < MaxObjs
                   /\ n \in { NArgs(w) : w \in ArgVectors }
         /\ LET f == NewFrame("js_rectangle_constructor", n, new, 36)
            IN  Commit(Append(frames, f),
                       Rect_L41(Rect_L40(Rect_L39(Rect_L36(
                           [Machine(f, objOK, memOK) EXCEPT
                              !.reuse = reuse])))))

RectConvertX ==
    /\ At("js_rectangle_constructor", 42)
    /\ \E a \in ArgAt(Top, 0) :
         Commit(frames, Rect_L42(Machine(Top, TRUE, TRUE), a))

RectConvertY ==
    /\ At("js_rectangle_constructor", 44)
    /\ \E a \in ArgAt(Top, 1) :
         Commit(frames, Rect_L44(Machine(Top, TRUE, TRUE), a))

RectReturn ==
    /\ At("js_rectangle_constructor", 46)
    /\ Commit(frames, Rect_L46(Machine(Top, TRUE, TRUE)))

----------------------------------------------------------------------------
(* js_filled_rectangle_constructor, line 100-123.                          *)

\* line 107-108: reject a call without `new`
Filled_L107(m) ==
    IF ~Ready(m, 107) THEN m
    ELSE IF ~HasCtorBit(m.f.argc)
    THEN Return(m, "exception", 0, JS_ThrowTypeError.exc, "throw")
    ELSE Goto(m, m.f, 109, "check")

\* line 109-111: obj = JS_PushGCRef(ctx, &obj_ref); argc &= ~FRAME_CF_CTOR
Filled_L109(m) ==
    IF ~Ready(m, 109) THEN m
    ELSE Goto([m EXCEPT !.gcrefs = JS_PushGCRef(@)],
              [m.f EXCEPT !.ref = Len(m.gcrefs) + 1,
                          !.argc = ClearCtorBit(@)], 112, "push")

\* line 112: *obj = JS_NewObjectClassUser(ctx, JS_CLASS_FILLED_RECTANGLE)
Filled_L112(m) ==
    IF ~Ready(m, 112) THEN m
    ELSE Goto([JS_NewObjectClassUser(m, JS_CLASS_FILLED_RECTANGLE)
                  EXCEPT !.gcrefs[m.f.ref].val = NewObjectResult(m)],
              m.f, 113, "newobject")

\* line 113: d = malloc(sizeof(*d))
Filled_L113(m) ==
    IF ~Ready(m, 113) THEN m
    ELSE Goto(malloc(m, FilledRectangleData_size),
              [m.f EXCEPT !.d = MallocResult(m)], 114, "malloc")

\* line 114: JS_SetOpaque(ctx, *obj, d)
Filled_L114(m) ==
    IF ~Ready(m, 114) THEN m
    ELSE Goto(JS_SetOpaque(m, m.gcrefs[m.f.ref].val, m.f.d), m.f, 115,
              "setopaque")

\* line 115-116: d->parent.x from argv[0]
Filled_L115(m, a) ==
    ConvertArg(m, 115, 0, FilledRectangleData_parent + RectangleData_x, 117, a)

\* line 117-118: d->parent.y from argv[1]
Filled_L117(m, a) ==
    ConvertArg(m, 117, 1, FilledRectangleData_parent + RectangleData_y, 119, a)

\* line 119-120: d->color from argv[2]
Filled_L119(m, a) ==
    ConvertArg(m, 119, 2, FilledRectangleData_color, 121, a)

\* line 121: JS_PopGCRef(ctx, &obj_ref); obj_ref itself stays in the frame
Filled_L121(m) ==
    IF ~Ready(m, 121) THEN m
    ELSE Goto([m EXCEPT !.gcrefs = JS_PopGCRef(@, m.f.ref)],
              [m.f EXCEPT !.obj = m.gcrefs[m.f.ref].val, !.ref = 0],
              122, "pop")

\* line 122: return *obj
Filled_L122(m) ==
    IF ~Ready(m, 122) THEN m ELSE ReturnObject(m, m.f.obj, 3)

\* script calls FilledRectangle(...) or new FilledRectangle(...): the
\* function runs up to its first argument conversion
CallFilledRectangle ==
    /\ ScriptRunning
    /\ Len(frames) < MaxDepth
    /\ \E n \in 0..3, new \in BOOLEAN, objOK \in BOOLEAN, memOK \in BOOLEAN,
          reuse \in {0} \cup Reusable :
         /\ new => /\ Len(heap) < MaxObjs
                   /\ n \in { NArgs(w) : w \in ArgVectors }
         /\ LET f == NewFrame("js_filled_rectangle_constructor", n, new, 107)
            IN  Commit(Append(frames, f),
                       Filled_L114(Filled_L113(Filled_L112(Filled_L109(
                           Filled_L107([Machine(f, objOK, memOK) EXCEPT
                              !.reuse = reuse]))))))

FilledConvertX ==
    /\ At("js_filled_rectangle_constructor", 115)
    /\ \E a \in ArgAt(Top, 0) :
         Commit(frames, Filled_L115(Machine(Top, TRUE, TRUE), a))

FilledConvertY ==
    /\ At("js_filled_rectangle_constructor", 117)
    /\ \E a \in ArgAt(Top, 1) :
         Commit(frames, Filled_L117(Machine(Top, TRUE, TRUE), a))

FilledConvertColor ==
    /\ At("js_filled_rectangle_constructor", 119)
    /\ \E a \in ArgAt(Top, 2) :
         Commit(frames, Filled_L119(Machine(Top, TRUE, TRUE), a))

FilledReturn ==
    /\ At("js_filled_rectangle_constructor", 121)
    /\ Commit(frames, Filled_L122(Filled_L121(Machine(Top, TRUE, TRUE))))

----------------------------------------------------------------------------
(* Finalizers and the collector.                                           *)

\* free(d): the block is released once more; what its memory holds from
\* then on is indeterminate
free(d) ==
    [d EXCEPT !.freed = @ + 1, !.mem = [i \in DOMAIN @ |-> 0], !.written = {}]

\* js_rectangle_finalizer, line 49-53
js_rectangle_finalizer(d) ==
    free([d EXCEPT !.state = "Finalized", !.finalized = @ + 1])

\* js_filled_rectangle_finalizer, line 125-129
js_filled_rectangle_finalizer(d) ==
    free([d EXCEPT !.state = "Finalized", !.finalized = @ + 1])

\* the finalizer the class of an instance registers
ClassFinalizer(class_id, d) ==
    IF class_id = JS_CLASS_RECTANGLE THEN js_rectangle_finalizer(d)
    ELSE js_filled_rectangle_finalizer(d)

\* something the collector walks is a dangling reference
DanglingRoots ==
    \/ \E i \in DOMAIN gcrefs : gcrefs[i].leaked
    \/ \E o \in roots : ~heap[o].alive

\* a collection runs (forced by script through gc(), or triggered by an
\* allocation of running script): every live object that is not reachable
\* is reclaimed, and the finalizer of its class runs on its opaque block.
\* Walking a dangling reference may instead fault.
Collect ==
    /\ ScriptRunning
    /\ \/ \E useLeaked \in BOOLEAN :
            LET dead == { o \in DOMAIN heap :
                            heap[o].alive /\ o \notin Reachable(useLeaked) }
                owner(b) == { o \in dead : heap[o].opaque = b }
            IN  /\ heap' = [o \in DOMAIN heap |->
                              IF o \in dead
                              THEN [heap[o] EXCEPT !.alive = FALSE,
                                                   !.int32_args = <<>>]
                              ELSE heap[o]]
                /\ blocks' = [b \in DOMAIN blocks |->
                              IF owner(b) # {}
                              THEN ClassFinalizer(
                                     heap[CHOOSE o \in owner(b) : TRUE].class_id,
                                     blocks[b])
                              ELSE IF blocks[b].state = "Finalized"
                                      /\ blocks[b].sweeps < 1
                              THEN [blocks[b] EXCEPT !.sweeps = @ + 1]
                              ELSE blocks[b]]
                /\ UNCHANGED <<roots, gcrefs, frames, ret, crashed, host>>
       \/ DanglingRoots /\ Fault("gc", FALSE)
    /\ UNCHANGED <<reg, host>>

\* script lets go of a reference it holds
DropRef ==
    /\ ScriptRunning
    /\ \E o \in roots : roots' = roots \ {o}
    /\ UNCHANGED <<heap, blocks, gcrefs, frames, ret, crashed, reg, host>>

----------------------------------------------------------------------------
(* The accessors.  They take the class id JS_GetClassID reports for the    *)
(* receiver and the memory JS_GetOpaque leads to.                          *)

\* d->slot; a slot outside the block is foreign memory
Load(d, slot) == IF slot \in DOMAIN d THEN d[slot] ELSE 99

Thrown(r) == [kind |-> r.kind, exc |-> r.exc, val |-> Undefined, read |-> FALSE]

Read(v) == [kind |-> "value", exc |-> "none", val |-> JS_NewInt32(v), read |-> TRUE]

\* get_x accepting the exact class only
js_rectangle_get_x_exact_class(class_id, d) ==
    IF class_id # JS_CLASS_RECTANGLE
    THEN Thrown(JS_ThrowTypeError)
    ELSE Read(Load(d, RectangleData_x))

\* line 55-64
js_rectangle_get_x(class_id, d) ==
    IF class_id # JS_CLASS_RECTANGLE /\ class_id # JS_CLASS_FILLED_RECTANGLE
    THEN Thrown(JS_ThrowTypeError)
    ELSE Read(Load(d, RectangleData_x))

\* get_y reading the field of get_x
js_rectangle_get_y_reads_x(class_id, d) ==
    IF class_id # JS_CLASS_RECTANGLE /\ class_id # JS_CLASS_FILLED_RECTANGLE
    THEN Thrown(JS_ThrowTypeError)
    ELSE Read(Load(d, RectangleData_x))

\* line 66-75
js_rectangle_get_y(class_id, d) ==
    IF class_id # JS_CLASS_RECTANGLE /\ class_id # JS_CLASS_FILLED_RECTANGLE
    THEN Thrown(JS_ThrowTypeError)
    ELSE Read(Load(d, RectangleData_y))

\* get_color guarded by the check of the parent's accessors
js_filled_rectangle_get_color_parent_check(class_id, d) ==
    IF class_id # JS_CLASS_RECTANGLE /\ class_id # JS_CLASS_FILLED_RECTANGLE
    THEN Thrown(JS_ThrowTypeError)
    ELSE Read(Load(d, FilledRectangleData_color))

\* line 131-139
js_filled_rectangle_get_color(class_id, d) ==
    IF class_id # JS_CLASS_FILLED_RECTANGLE
    THEN Thrown(JS_ThrowTypeError)
    ELSE Read(Load(d, FilledRectangleData_color))

\* built-in objects script can pass as a receiver (get_x.call(new Error()))
BuiltinReceivers ==
    { ClassIdOf("JS_CLASS_OBJECT"), ClassIdOf("JS_CLASS_TYPE_ERROR") }

\* what the engine reports for a receiver: its class id and the memory its
\* opaque pointer leads to.  A reclaimed instance is a dangling reference:
\* both reads give whatever the reused memory holds.
Observed(o) ==
    IF heap[o].alive
    THEN { <<heap[o].class_id, blocks[heap[o].opaque].mem>> }
    ELSE { <<c, [i \in 1..FilledRectangleData_size |-> j]>> :
              c \in {ClassIdOf("JS_CLASS_OBJECT"), JS_CLASS_RECTANGLE,
                     JS_CLASS_FILLED_RECTANGLE},
              j \in JunkVals }

Accessed(fn, o, cls, r) ==
    [NoRet EXCEPT !.fn = fn, !.kind = r.kind, !.val = r.val, !.exc = r.exc,
                  !.recv = o, !.cls = cls, !.read = r.read,
                  !.dangling = r.read /\ o # 0 /\ ~heap[o].alive]

\* script calls an accessor on an instance it holds or on a built-in object
GetX ==
    /\ ScriptRunning
    /\ \/ \E o \in roots : \E ob \in Observed(o) :
            ret' = Accessed("js_rectangle_get_x", o, ob[1],
                            js_rectangle_get_x(ob[1], ob[2]))
       \/ \E c \in BuiltinReceivers :
            ret' = Accessed("js_rectangle_get_x", 0, c,
                            js_rectangle_get_x(c, <<>>))
    /\ UNCHANGED <<heap, blocks, roots, gcrefs, frames, crashed, reg, host>>

GetY ==
    /\ ScriptRunning
    /\ \/ \E o \in roots : \E ob \in Observed(o) :
            ret' = Accessed("js_rectangle_get_y", o, ob[1],
                            js_rectangle_get_y(ob[1], ob[2]))
       \/ \E c \in BuiltinReceivers :
            ret' = Accessed("js_rectangle_get_y", 0, c,
                            js_rectangle_get_y(c, <<>>))
    /\ UNCHANGED <<heap, blocks, roots, gcrefs, frames, crashed, reg, host>>

GetColor ==
    /\ ScriptRunning
    /\ \/ \E o \in roots : \E ob \in Observed(o) :
            ret' = Accessed("js_filled_rectangle_get_color", o, ob[1],
                            js_filled_rectangle_get_color(ob[1], ob[2]))
       \/ \E c \in BuiltinReceivers :
            ret' = Accessed("js_filled_rectangle_get_color", 0, c,
                            js_filled_rectangle_get_color(c, <<>>))
    /\ UNCHANGED <<heap, blocks, roots, gcrefs, frames, crashed, reg, host>>

----------------------------------------------------------------------------
(* js_rectangle_call and js_print.                                         *)

\* what the re-entrant JS_Call of argv[0] can come back with: a result, an
\* exception thrown by the callee, or the TypeError of a non-callable
CalleeOutcomes ==
    { [kind |-> "value", exc |-> "none", val |-> Num(0, 3)],
      [kind |-> "exception", exc |-> "Error", val |-> Undefined],
      [kind |-> "exception", exc |-> "TypeError", val |-> Undefined] }

\* the values script passes as argv[0] and argv[1]: a function or a value
\* that cannot be called, and an argument
FunctionValue == [k |-> "function", q |-> 0, v |-> 0, throws |-> FALSE]

JS_NULL == [k |-> "null", q |-> 0, v |-> 0, throws |-> FALSE]

js_rectangle_call_argv ==
    { <<FunctionValue, Num(0, 3)>>, <<FunctionValue, Undefined>>,
      <<Num(0, 4), Num(0, 3)>> }

\* JS_PushArg puts v on top of the value stack
JS_PushArg(stack, v) == Append(stack, v)

\* JS_Call(ctx, argc) takes the receiver from the top of the stack, the
\* function from under it and the argc arguments from under that, the
\* first argument uppermost
JS_Call(stack, argc) ==
    LET n == Len(stack)
    IN  [this |-> stack[n], func |-> stack[n - 1],
         args |-> [i \in 1..argc |-> stack[n - 1 - i]], argc |-> argc]

\* the result of JS_Call discarded: JS_UNDEFINED is returned whatever the
\* callee left pending
js_rectangle_call_drops_result(argv, stackOK, callee) ==
    IF ~stackOK
    THEN [kind |-> "exception", exc |-> "InternalError", val |-> Undefined,
          steps |-> <<"stackcheck">>, call |-> <<>>]
    ELSE LET s1 == JS_PushArg(<<>>, argv[2])
             s2 == JS_PushArg(s1, argv[1])
             s3 == JS_PushArg(s2, JS_NULL)
         IN  [kind |-> "value", exc |-> callee.exc, val |-> Undefined,
              steps |-> <<"stackcheck", "push argv[1]", "push argv[0]",
                          "push null", "call 1">>,
              call |-> <<JS_Call(s3, 1)>>]

\* the function pushed before its argument
js_rectangle_call_function_first(argv, stackOK, callee) ==
    IF ~stackOK
    THEN [kind |-> "exception", exc |-> "InternalError", val |-> Undefined,
          steps |-> <<"stackcheck">>, call |-> <<>>]
    ELSE LET s1 == JS_PushArg(<<>>, argv[1])
             s2 == JS_PushArg(s1, argv[2])
             s3 == JS_PushArg(s2, JS_NULL)
         IN  [kind |-> callee.kind, exc |-> callee.exc, val |-> callee.val,
              steps |-> <<"stackcheck", "push argv[0]", "push argv[1]",
                          "push null", "call 1">>,
              call |-> <<JS_Call(s3, 1)>>]

\* line 89-98; argv[1] and argv[2] here are argv[0] and argv[1] of the
\* source; stackOK: JS_StackCheck(ctx, 3) finds room (it throws otherwise);
\* callee: the outcome of JS_Call(ctx, 1)
js_rectangle_call(argv, stackOK, callee) ==
    IF ~stackOK
    THEN [kind |-> "exception", exc |-> "InternalError", val |-> Undefined,
          steps |-> <<"stackcheck">>, call |-> <<>>]
    ELSE LET s1 == JS_PushArg(<<>>, argv[2])
             s2 == JS_PushArg(s1, argv[1])
             s3 == JS_PushArg(s2, JS_NULL)
         IN  [kind |-> callee.kind, exc |-> callee.exc, val |-> callee.val,
              steps |-> <<"stackcheck", "push argv[1]", "push argv[0]",
                          "push null", "call 1">>,
              call |-> <<JS_Call(s3, 1)>>]

\* script calls Rectangle.call(f, a)
RectangleCall ==
    /\ ScriptRunning
    /\ \E argv \in js_rectangle_call_argv, stackOK \in BOOLEAN,
          callee \in CalleeOutcomes :
         LET r == js_rectangle_call(argv, stackOK, callee)
         IN  ret' = [NoRet EXCEPT !.fn = "js_rectangle_call", !.kind = r.kind,
                                  !.exc = r.exc, !.val = r.val,
                                  !.steps = r.steps, !.call = r.call,
                                  !.argv = argv]
    /\ UNCHANGED <<heap, blocks, roots, gcrefs, frames, crashed, reg, host>>

\* the argument lists print is called with: strings and other values
StringValue == [k |-> "string", q |-> 0, v |-> 0, throws |-> FALSE]

js_print_argv ==
    { <<>>, <<StringValue>>, <<Num(0, 3)>>, <<StringValue, Num(0, 3)>> }

\* line 146-159: what the loop writes to stdout for argv[i..]
RECURSIVE js_print_loop(_, _)
js_print_loop(argv, i) ==
    IF i > Len(argv) THEN <<>>
    ELSE (IF i # 1 THEN <<"putchar ' '">> ELSE <<>>)
         \o (IF argv[i].k = "string" THEN <<"fwrite">> ELSE <<"JS_PrintValueF">>)
         \o js_print_loop(argv, i + 1)

\* line 141-163
js_print(argv) ==
    [kind |-> "value", exc |-> "none", val |-> Undefined,
     steps |-> js_print_loop(argv, 1) \o <<"putchar '\\n'", "fflush">>]

\* script calls print(...)
CallPrint ==
    /\ ScriptRunning
    /\ \E argv \in js_print_argv :
         LET r == js_print(argv)
         IN  ret' = [NoRet EXCEPT !.fn = "js_print", !.kind = r.kind,
                                  !.exc = r.exc, !.val = r.val,
                                  !.steps = r.steps]
    /\ UNCHANGED <<heap, blocks, roots, gcrefs, frames, crashed, reg, host>>

----------------------------------------------------------------------------
(* The static class registry of mqjs_stdlib.c: member tables and class     *)
(* descriptors, transcribed entry by entry.  A member entry keeps its      *)
(* name, the kind of definition, the implementation and the magic          *)
(* discriminator; a class descriptor keeps its class id, its tables and    *)
(* its parent.                                                             *)

PropDef(def, name, impl, magic) ==
    [name |-> name, def |-> def, impl |-> impl, magic |-> magic]

JS_CFUNC_DEF(name, length, func_name) ==
    PropDef("cfunc", name, func_name, "0")
\* the magic argument dropped from the entry
JS_CFUNC_MAGIC_DEF_no_magic(name, length, func_name, magic) ==
    PropDef("cfunc_magic", name, func_name, "0")
JS_CFUNC_MAGIC_DEF(name, length, func_name, magic) ==
    PropDef("cfunc_magic", name, func_name, magic)
JS_CFUNC_SPECIAL_DEF(name, length, proto, func_name) ==
    PropDef("cfunc_special", name, func_name, "0")
JS_CGETSET_DEF(name, get_func_name, set_func_name) ==
    PropDef("cgetset", name, get_func_name, "0")
JS_CGETSET_MAGIC_DEF(name, get_func_name, set_func_name, magic) ==
    PropDef("cgetset_magic", name, get_func_name, magic)
JS_PROP_DOUBLE_DEF(name, val, flags) ==
    PropDef("double", name, val, "0")
JS_PROP_STRING_DEF(name, cstr, flags) ==
    PropDef("string", name, cstr, "0")
JS_PROP_CLASS_DEF(name, class) ==
    PropDef("class", name, class, "0")
JS_PROP_NULL_DEF(name, flags) ==
    PropDef("null", name, "NULL", "0")
JS_PROP_UNDEFINED_DEF(name, flags) ==
    PropDef("undefined", name, "NULL", "0")

\* line 34-38
js_object_proto ==
    << JS_CFUNC_DEF("hasOwnProperty", 1, "js_object_hasOwnProperty"),
       JS_CFUNC_DEF("toString", 0, "js_object_toString") >>

\* line 40-47
js_object ==
    << JS_CFUNC_DEF("defineProperty", 3, "js_object_defineProperty"),
       JS_CFUNC_DEF("getPrototypeOf", 1, "js_object_getPrototypeOf"),
       JS_CFUNC_DEF("setPrototypeOf", 2, "js_object_setPrototypeOf"),
       JS_CFUNC_DEF("create", 2, "js_object_create"),
       JS_CFUNC_DEF("keys", 1, "js_object_keys") >>

\* line 53-62
js_function_proto ==
    << JS_CGETSET_DEF("prototype", "js_function_get_prototype", "js_function_set_prototype"),
       JS_CFUNC_DEF("call", 1, "js_function_call"),
       JS_CFUNC_DEF("apply", 2, "js_function_apply"),
       JS_CFUNC_DEF("bind", 1, "js_function_bind"),
       JS_CFUNC_DEF("toString", 0, "js_function_toString"),
       JS_CGETSET_MAGIC_DEF("length", "js_function_get_length_name", "NULL", "0"),
       JS_CGETSET_MAGIC_DEF("name", "js_function_get_length_name", "NULL", "1") >>

\* line 67-73
js_number_proto ==
    << JS_CFUNC_DEF("toExponential", 1, "js_number_toExponential"),
       JS_CFUNC_DEF("toFixed", 1, "js_number_toFixed"),
       JS_CFUNC_DEF("toPrecision", 1, "js_number_toPrecision"),
       JS_CFUNC_DEF("toString", 1, "js_number_toString") >>

\* line 75-87
js_number ==
    << JS_CFUNC_DEF("parseInt", 2, "js_number_parseInt"),
       JS_CFUNC_DEF("parseFloat", 1, "js_number_parseFloat"),
       JS_PROP_DOUBLE_DEF("MAX_VALUE", "1.7976931348623157e+308", 0),
       JS_PROP_DOUBLE_DEF("MIN_VALUE", "5e-324", 0),
       JS_PROP_DOUBLE_DEF("NaN", "NAN", 0),
       JS_PROP_DOUBLE_DEF("NEGATIVE_INFINITY", "-INFINITY", 0),
       JS_PROP_DOUBLE_DEF("POSITIVE_INFINITY", "INFINITY", 0),
       JS_PROP_DOUBLE_DEF("EPSILON", "2.220446049250313e-16", 0),
       JS_PROP_DOUBLE_DEF("MAX_SAFE_INTEGER", "9007199254740991.0", 0),
       JS_PROP_DOUBLE_DEF("MIN_SAFE_INTEGER", "-9007199254740991.0", 0) >>

\* line 95-118
js_string_proto ==
    << JS_CGETSET_DEF("length", "js_string_get_length", "js_string_set_length"),
       JS_CFUNC_MAGIC_DEF("charAt", 1, "js_string_charAt", "magic_charAt"),
       JS_CFUNC_MAGIC_DEF("charCodeAt", 1, "js_string_charAt", "magic_charCodeAt"),
       JS_CFUNC_MAGIC_DEF("codePointAt", 1, "js_string_charAt", "magic_codePointAt"),
       JS_CFUNC_DEF("slice", 2, "js_string_slice"),
       JS_CFUNC_DEF("substring", 2, "js_string_substring"),
       JS_CFUNC_DEF("concat", 1, "js_string_concat"),
       JS_CFUNC_MAGIC_DEF("indexOf", 1, "js_string_indexOf", "0"),
       JS_CFUNC_MAGIC_DEF("lastIndexOf", 1, "js_string_indexOf", "1"),
       JS_CFUNC_DEF("match", 1, "js_string_match"),
       JS_CFUNC_MAGIC_DEF("replace", 2, "js_string_replace", "0"),
       JS_CFUNC_MAGIC_DEF("replaceAll", 2, "js_string_replace", "1"),
       JS_CFUNC_DEF("search", 1, "js_string_search"),
       JS_CFUNC_DEF("split", 2, "js_string_split"),
       JS_CFUNC_MAGIC_DEF("toLowerCase", 0, "js_string_toLowerCase", "1"),
       JS_CFUNC_MAGIC_DEF("toUpperCase", 0, "js_string_toLowerCase", "0"),
       JS_CFUNC_MAGIC_DEF("trim", 0, "js_string_trim", "3"),
       JS_CFUNC_MAGIC_DEF("trimEnd", 0, "js_string_trim", "2"),
       JS_CFUNC_MAGIC_DEF("trimStart", 0, "js_string_trim", "1"),
       JS_CFUNC_DEF("toString", 0, "js_string_toString"),
       JS_CFUNC_DEF("repeat", 1, "js_string_repeat") >>

\* line 120-124
js_string ==
    << JS_CFUNC_MAGIC_DEF("fromCharCode", 1, "js_string_fromCharCode", "0"),
       JS_CFUNC_MAGIC_DEF("fromCodePoint", 1, "js_string_fromCharCode", "1") >>

\* line 129-153
js_array_proto ==
    << JS_CFUNC_DEF("concat", 1, "js_array_concat"),
       JS_CGETSET_DEF("length", "js_array_get_length", "js_array_set_length"),
       JS_CFUNC_MAGIC_DEF("push", 1, "js_array_push", "0"),
       JS_CFUNC_DEF("pop", 0, "js_array_pop"),
       JS_CFUNC_DEF("join", 1, "js_array_join"),
       JS_CFUNC_DEF("toString", 0, "js_array_toString"),
       JS_CFUNC_DEF("reverse", 0, "js_array_reverse"),
       JS_CFUNC_DEF("shift", 0, "js_array_shift"),
       JS_CFUNC_DEF("slice", 2, "js_array_slice"),
       JS_CFUNC_DEF("splice", 2, "js_array_splice"),
       JS_CFUNC_MAGIC_DEF("unshift", 1, "js_array_push", "1"),
       JS_CFUNC_MAGIC_DEF("indexOf", 1, "js_array_indexOf", "0"),
       JS_CFUNC_MAGIC_DEF("lastIndexOf", 1, "js_array_indexOf", "1"),
       JS_CFUNC_MAGIC_DEF("every", 1, "js_array_every", "js_special_every"),
       JS_CFUNC_MAGIC_DEF("some", 1, "js_array_every", "js_special_some"),
       JS_CFUNC_MAGIC_DEF("forEach", 1, "js_array_every", "js_special_forEach"),
       JS_CFUNC_MAGIC_DEF("map", 1, "js_array_every", "js_special_map"),
       JS_CFUNC_MAGIC_DEF("filter", 1, "js_array_every", "js_special_filter"),
       JS_CFUNC_MAGIC_DEF("reduce", 1, "js_array_reduce", "js_special_reduce"),
       JS_CFUNC_MAGIC_DEF("reduceRight", 1, "js_array_reduce", "js_special_reduceRight"),
       JS_CFUNC_MAGIC_DEF("reduce", 1, "js_array_reduce", "js_special_reduce"),
       JS_CFUNC_DEF("sort", 1, "js_array_sort") >>

\* line 155-158
js_array ==
    << JS_CFUNC_DEF("isArray", 1, "js_array_isArray") >>

\* line 163-169
js_error_proto ==
    << JS_CFUNC_DEF("toString", 0, "js_error_toString"),
       JS_PROP_STRING_DEF("name", "Error", 0),
       JS_CGETSET_MAGIC_DEF("message", "js_error_get_message", "NULL", "0"),
       JS_CGETSET_MAGIC_DEF("stack", "js_error_get_message", "NULL", "1") >>

\* line 190-230
js_math ==
    << JS_CFUNC_MAGIC_DEF("min", 2, "js_math_min_max", "0"),
       JS_CFUNC_MAGIC_DEF("max", 2, "js_math_min_max", "1"),
       JS_CFUNC_SPECIAL_DEF("sign", 1, "f_f", "js_math_sign"),
       JS_CFUNC_SPECIAL_DEF("abs", 1, "f_f", "js_fabs"),
       JS_CFUNC_SPECIAL_DEF("floor", 1, "f_f", "js_floor"),
       JS_CFUNC_SPECIAL_DEF("ceil", 1, "f_f", "js_ceil"),
       JS_CFUNC_SPECIAL_DEF("round", 1, "f_f", "js_round_inf"),
       JS_CFUNC_SPECIAL_DEF("sqrt", 1, "f_f", "js_sqrt"),
       JS_PROP_DOUBLE_DEF("E", "2.718281828459045", 0),
       JS_PROP_DOUBLE_DEF("LN10", "2.302585092994046", 0),
       JS_PROP_DOUBLE_DEF("LN2", "0.6931471805599453", 0),
       JS_PROP_DOUBLE_DEF("LOG2E", "1.4426950408889634", 0),
       JS_PROP_DOUBLE_DEF("LOG10E", "0.4342944819032518", 0),
       JS_PROP_DOUBLE_DEF("PI", "3.141592653589793", 0),
       JS_PROP_DOUBLE_DEF("SQRT1_2", "0.7071067811865476", 0),
       JS_PROP_DOUBLE_DEF("SQRT2", "1.4142135623730951", 0),
       JS_CFUNC_SPECIAL_DEF("sin", 1, "f_f", "js_sin"),
       JS_CFUNC_SPECIAL_DEF("cos", 1, "f_f", "js_cos"),
       JS_CFUNC_SPECIAL_DEF("tan", 1, "f_f", "js_tan"),
       JS_CFUNC_SPECIAL_DEF("asin", 1, "f_f", "js_asin"),
       JS_CFUNC_SPECIAL_DEF("acos", 1, "f_f", "js_acos"),
       JS_CFUNC_SPECIAL_DEF("atan", 1, "f_f", "js_atan"),
       JS_CFUNC_DEF("atan2", 2, "js_math_atan2"),
       JS_CFUNC_SPECIAL_DEF("exp", 1, "f_f", "js_exp"),
       JS_CFUNC_SPECIAL_DEF("log", 1, "f_f", "js_log"),
       JS_CFUNC_DEF("pow", 2, "js_math_pow"),
       JS_CFUNC_DEF("random", 0, "js_math_random"),
       JS_CFUNC_DEF("imul", 2, "js_math_imul"),
       JS_CFUNC_DEF("clz32", 1, "js_math_clz32"),
       JS_CFUNC_SPECIAL_DEF("fround", 1, "f_f", "js_math_fround"),
       JS_CFUNC_SPECIAL_DEF("trunc", 1, "f_f", "js_trunc"),
       JS_CFUNC_SPECIAL_DEF("log2", 1, "f_f", "js_log2"),
       JS_CFUNC_SPECIAL_DEF("log10", 1, "f_f", "js_log10") >>

\* line 235-239
js_json ==
    << JS_CFUNC_DEF("parse", 2, "js_json_parse"),
       JS_CFUNC_DEF("stringify", 3, "js_json_stringify") >>

\* line 245-248
js_array_buffer_proto ==
    << JS_CGETSET_DEF("byteLength", "js_array_buffer_get_byteLength", "NULL") >>

\* line 253-263
js_typed_array_base_proto ==
    << JS_CGETSET_MAGIC_DEF("length", "js_typed_array_get_length", "NULL", "0"),
       JS_CGETSET_MAGIC_DEF("byteLength", "js_typed_array_get_length", "NULL", "1"),
       JS_CGETSET_MAGIC_DEF("byteOffset", "js_typed_array_get_length", "NULL", "2"),
       JS_CGETSET_MAGIC_DEF("buffer", "js_typed_array_get_length", "NULL", "3"),
       JS_CFUNC_DEF("join", 1, "js_array_join"),
       JS_CFUNC_DEF("toString", 0, "js_array_toString"),
       JS_CFUNC_DEF("subarray", 2, "js_typed_array_subarray"),
       JS_CFUNC_DEF("set", 1, "js_typed_array_set") >>

\* line 292-299
js_regexp_proto ==
    << JS_CGETSET_DEF("lastIndex", "js_regexp_get_lastIndex", "js_regexp_set_lastIndex"),
       JS_CGETSET_DEF("source", "js_regexp_get_source", "NULL"),
       JS_CGETSET_DEF("flags", "js_regexp_get_flags", "NULL"),
       JS_CFUNC_MAGIC_DEF("exec", 1, "js_regexp_exec", "0"),
       JS_CFUNC_MAGIC_DEF("test", 1, "js_regexp_exec", "1") >>

\* line 306-309
js_date ==
    << JS_CFUNC_DEF("now", 0, "js_date_now") >>

\* line 314-321
js_console ==
    << JS_CFUNC_DEF("log", 1, "js_print"),
       JS_CFUNC_DEF("warn", 1, "js_print"),
       JS_CFUNC_DEF("error", 1, "js_print"),
       JS_CFUNC_DEF("info", 1, "js_print"),
       JS_CFUNC_DEF("debug", 1, "js_print") >>

\* line 326-329
js_performance ==
    << JS_CFUNC_DEF("now", 0, "js_performance_now") >>

\* line 333-592
js_gl ==
    << JS_CFUNC_DEF("createBuffer", 0, "js_gl_createBuffer"),
       JS_CFUNC_DEF("deleteBuffer", 1, "js_gl_deleteBuffer"),
       JS_CFUNC_DEF("bindBuffer", 2, "js_gl_bindBuffer"),
       JS_CFUNC_DEF("bufferData", 2, "js_gl_bufferData"),
       JS_CFUNC_DEF("createShader", 1, "js_gl_createShader"),
       JS_CFUNC_DEF("deleteShader", 1, "js_gl_deleteShader"),
       JS_CFUNC_DEF("shaderSource", 2, "js_gl_shaderSource"),
       JS_CFUNC_DEF("compileShader", 1, "js_gl_compileShader"),
       JS_CFUNC_DEF("getShaderParameter", 2, "js_gl_getShaderParameter"),
       JS_CFUNC_DEF("getShaderInfoLog", 1, "js_gl_getShaderInfoLog"),
       JS_CFUNC_DEF("createProgram", 0, "js_gl_createProgram"),
       JS_CFUNC_DEF("deleteProgram", 1, "js_gl_deleteProgram"),
       JS_CFUNC_DEF("attachShader", 2, "js_gl_attachShader"),
       JS_CFUNC_DEF("linkProgram", 1, "js_gl_linkProgram"),
       JS_CFUNC_DEF("getProgramParameter", 2, "js_gl_getProgramParameter"),
       JS_CFUNC_DEF("getProgramInfoLog", 1, "js_gl_getProgramInfoLog"),
       JS_CFUNC_DEF("useProgram", 1, "js_gl_useProgram"),
       JS_CFUNC_DEF("getAttribLocation", 2, "js_gl_getAttribLocation"),
       JS_CFUNC_DEF("getActiveAttrib", 2, "js_gl_getActiveAttrib"),
       JS_CFUNC_DEF("getActiveUniform", 2, "js_gl_getActiveUniform"),
       JS_CFUNC_DEF("getParameter", 1, "js_gl_getParameter"),
       JS_CFUNC_DEF("getExtension", 1, "js_gl_getExtension"),
       JS_CFUNC_DEF("getSupportedExtensions", 0, "js_gl_getSupportedExtensions"),
       JS_CFUNC_DEF("getContextAttributes", 0, "js_gl_getContextAttributes"),
       JS_CFUNC_DEF("stencilFunc", 3, "js_gl_stencilFunc"),
       JS_CFUNC_DEF("stencilFuncSeparate", 4, "js_gl_stencilFuncSeparate"),
       JS_CFUNC_DEF("stencilMask", 1, "js_gl_stencilMask"),
       JS_CFUNC_DEF("stencilMaskSeparate", 2, "js_gl_stencilMaskSeparate"),
       JS_CFUNC_DEF("stencilOp", 3, "js_gl_stencilOp"),
       JS_CFUNC_DEF("stencilOpSeparate", 4, "js_gl_stencilOpSeparate"),
       JS_CFUNC_DEF("activeTexture", 1, "js_gl_activeTexture"),
       JS_CFUNC_DEF("createTexture", 0, "js_gl_createTexture"),
       JS_CFUNC_DEF("deleteTexture", 1, "js_gl_deleteTexture"),
       JS_CFUNC_DEF("bindTexture", 2, "js_gl_bindTexture"),
       JS_CFUNC_DEF("texParameteri", 3, "js_gl_texParameteri"),
       JS_CFUNC_DEF("texImage2D", 9, "js_gl_texImage2D"),
       JS_CFUNC_DEF("texSubImage2D", 9, "js_gl_texSubImage2D"),
       JS_CFUNC_DEF("texStorage2D", 5, "js_gl_texStorage2D"),
       JS_CFUNC_DEF("texImage3D", 10, "js_gl_texImage3D"),
       JS_CFUNC_DEF("texSubImage3D", 10, "js_gl_texSubImage3D"),
       JS_CFUNC_DEF("generateMipmap", 1, "js_gl_generateMipmap"),
       JS_CFUNC_DEF("createFramebuffer", 0, "js_gl_createFramebuffer"),
       JS_CFUNC_DEF("deleteFramebuffer", 1, "js_gl_deleteFramebuffer"),
       JS_CFUNC_DEF("bindFramebuffer", 2, "js_gl_bindFramebuffer"),
       JS_CFUNC_DEF("framebufferTexture2D", 5, "js_gl_framebufferTexture2D"),
       JS_CFUNC_DEF("checkFramebufferStatus", 1, "js_gl_checkFramebufferStatus"),
       JS_CFUNC_DEF("createRenderbuffer", 0, "js_gl_createRenderbuffer"),
       JS_CFUNC_DEF("deleteRenderbuffer", 1, "js_gl_deleteRenderbuffer"),
       JS_CFUNC_DEF("bindRenderbuffer", 2, "js_gl_bindRenderbuffer"),
       JS_CFUNC_DEF("renderbufferStorage", 4, "js_gl_renderbufferStorage"),
       JS_CFUNC_DEF("framebufferRenderbuffer", 4, "js_gl_framebufferRenderbuffer"),
       JS_CFUNC_DEF("createVertexArray", 0, "js_gl_createVertexArray"),
       JS_CFUNC_DEF("deleteVertexArray", 1, "js_gl_deleteVertexArray"),
       JS_CFUNC_DEF("bindVertexArray", 1, "js_gl_bindVertexArray"),
       JS_CFUNC_DEF("enable", 1, "js_gl_enable"),
       JS_CFUNC_DEF("disable", 1, "js_gl_disable"),
       JS_CFUNC_DEF("viewport", 4, "js_gl_viewport"),
       JS_CFUNC_DEF("clearColor", 4, "js_gl_clearColor"),
       JS_CFUNC_DEF("clear", 1, "js_gl_clear"),
       JS_CFUNC_DEF("clearDepth", 1, "js_gl_clearDepth"),
       JS_CFUNC_DEF("clearStencil", 1, "js_gl_clearStencil"),
       JS_CFUNC_DEF("depthFunc", 1, "js_gl_depthFunc"),
       JS_CFUNC_DEF("depthMask", 1, "js_gl_depthMask"),
       JS_CFUNC_DEF("colorMask", 4, "js_gl_colorMask"),
       JS_CFUNC_DEF("cullFace", 1, "js_gl_cullFace"),
       JS_CFUNC_DEF("frontFace", 1, "js_gl_frontFace"),
       JS_CFUNC_DEF("blendFunc", 2, "js_gl_blendFunc"),
       JS_CFUNC_DEF("blendFuncSeparate", 4, "js_gl_blendFuncSeparate"),
       JS_CFUNC_DEF("blendEquation", 1, "js_gl_blendEquation"),
       JS_CFUNC_DEF("blendEquationSeparate", 2, "js_gl_blendEquationSeparate"),
       JS_CFUNC_DEF("scissor", 4, "js_gl_scissor"),
       JS_CFUNC_DEF("lineWidth", 1, "js_gl_lineWidth"),
       JS_CFUNC_DEF("polygonOffset", 2, "js_gl_polygonOffset"),
       JS_CFUNC_DEF("pixelStorei", 2, "js_gl_pixelStorei"),
       JS_CFUNC_DEF("getError", 0, "js_gl_getError"),
       JS_CFUNC_DEF("getShaderPrecisionFormat", 2, "js_gl_getShaderPrecisionFormat"),
       JS_CFUNC_DEF("enableVertexAttribArray", 1, "js_gl_enableVertexAttribArray"),
       JS_CFUNC_DEF("disableVertexAttribArray", 1, "js_gl_disableVertexAttribArray"),
       JS_CFUNC_DEF("vertexAttribPointer", 6, "js_gl_vertexAttribPointer"),
       JS_CFUNC_DEF("drawArrays", 3, "js_gl_drawArrays"),
       JS_CFUNC_DEF("drawElements", 4, "js_gl_drawElements"),
       JS_CFUNC_DEF("getUniformLocation", 2, "js_gl_getUniformLocation"),
       JS_CFUNC_DEF("uniform1f", 2, "js_gl_uniform1f"),
       JS_CFUNC_DEF("uniform2f", 3, "js_gl_uniform2f"),
       JS_CFUNC_DEF("uniform3f", 4, "js_gl_uniform3f"),
       JS_CFUNC_DEF("uniform4f", 5, "js_gl_uniform4f"),
       JS_CFUNC_DEF("uniform1i", 2, "js_gl_uniform1i"),
       JS_CFUNC_DEF("uniform2i", 3, "js_gl_uniform2i"),
       JS_CFUNC_DEF("uniform3i", 4, "js_gl_uniform3i"),
       JS_CFUNC_DEF("uniform4i", 5, "js_gl_uniform4i"),
       JS_CFUNC_DEF("uniformMatrix4fv", 3, "js_gl_uniformMatrix4fv"),
       JS_CFUNC_DEF("uniformMatrix3fv", 3, "js_gl_uniformMatrix3fv"),
       JS_CFUNC_DEF("uniformMatrix2fv", 3, "js_gl_uniformMatrix2fv"),
       JS_CFUNC_DEF("uniform1fv", 2, "js_gl_uniform1fv"),
       JS_CFUNC_DEF("uniform2fv", 2, "js_gl_uniform2fv"),
       JS_CFUNC_DEF("uniform3fv", 2, "js_gl_uniform3fv"),
       JS_CFUNC_DEF("uniform4fv", 2, "js_gl_uniform4fv"),
       JS_PROP_DOUBLE_DEF("ARRAY_BUFFER", "34962", 0),
       JS_PROP_DOUBLE_DEF("ELEMENT_ARRAY_BUFFER", "34963", 0),
       JS_PROP_DOUBLE_DEF("VERTEX_SHADER", "35633", 0),
       JS_PROP_DOUBLE_DEF("FRAGMENT_SHADER", "35632", 0),
       JS_PROP_DOUBLE_DEF("COMPILE_STATUS", "35713", 0),
       JS_PROP_DOUBLE_DEF("LINK_STATUS", "35714", 0),
       JS_PROP_DOUBLE_DEF("FLOAT", "5126", 0),
       JS_PROP_DOUBLE_DEF("UNSIGNED_SHORT", "5123", 0),
       JS_PROP_DOUBLE_DEF("UNSIGNED_INT", "5125", 0),
       JS_PROP_DOUBLE_DEF("TRIANGLES", "4", 0),
       JS_PROP_DOUBLE_DEF("TRIANGLE_STRIP", "5", 0),
       JS_PROP_DOUBLE_DEF("LINES", "1", 0),
       JS_PROP_DOUBLE_DEF("POINTS", "0", 0),
       JS_PROP_DOUBLE_DEF("COLOR_BUFFER_BIT", "0x00004000", 0),
       JS_PROP_DOUBLE_DEF("DEPTH_BUFFER_BIT", "0x00000100", 0),
       JS_PROP_DOUBLE_DEF("STENCIL_BUFFER_BIT", "0x00000400", 0),
       JS_PROP_DOUBLE_DEF("DEPTH_TEST", "0x0B71", 0),
       JS_PROP_DOUBLE_DEF("STENCIL_TEST", "0x0B90", 0),
       JS_PROP_DOUBLE_DEF("STENCIL_FUNC", "0x0B92", 0),
       JS_PROP_DOUBLE_DEF("STENCIL_VALUE_MASK", "0x0B93", 0),
       JS_PROP_DOUBLE_DEF("STENCIL_FAIL", "0x0B94", 0),
       JS_PROP_DOUBLE_DEF("STENCIL_PASS_DEPTH_FAIL", "0x0B95", 0),
       JS_PROP_DOUBLE_DEF("STENCIL_PASS_DEPTH_PASS", "0x0B96", 0),
       JS_PROP_DOUBLE_DEF("STENCIL_REF", "0x0B97", 0),
       JS_PROP_DOUBLE_DEF("STENCIL_WRITEMASK", "0x0B98", 0),
       JS_PROP_DOUBLE_DEF("STENCIL_BACK_FUNC", "0x8800", 0),
       JS_PROP_DOUBLE_DEF("STENCIL_BACK_FAIL", "0x8801", 0),
       JS_PROP_DOUBLE_DEF("STENCIL_BACK_PASS_DEPTH_FAIL", "0x8802", 0),
       JS_PROP_DOUBLE_DEF("STENCIL_BACK_PASS_DEPTH_PASS", "0x8803", 0),
       JS_PROP_DOUBLE_DEF("STENCIL_BACK_REF", "0x8CA3", 0),
       JS_PROP_DOUBLE_DEF("STENCIL_BACK_VALUE_MASK", "0x8CA4", 0),
       JS_PROP_DOUBLE_DEF("STENCIL_BACK_WRITEMASK", "0x8CA5", 0),
       JS_PROP_DOUBLE_DEF("KEEP", "0x1E00", 0),
       JS_PROP_DOUBLE_DEF("REPLACE", "0x1E01", 0),
       JS_PROP_DOUBLE_DEF("INCR", "0x1E02", 0),
       JS_PROP_DOUBLE_DEF("DECR", "0x1E03", 0),
       JS_PROP_DOUBLE_DEF("INVERT", "0x150A", 0),
       JS_PROP_DOUBLE_DEF("INCR_WRAP", "0x8507", 0),
       JS_PROP_DOUBLE_DEF("DECR_WRAP", "0x8508", 0),
       JS_PROP_DOUBLE_DEF("BLEND", "0x0BE2", 0),
       JS_PROP_DOUBLE_DEF("CULL_FACE", "0x0B44", 0),
       JS_PROP_DOUBLE_DEF("POLYGON_OFFSET_FILL", "0x8037", 0),
       JS_PROP_DOUBLE_DEF("SCISSOR_TEST", "0x0C11", 0),
       JS_PROP_DOUBLE_DEF("SAMPLE_ALPHA_TO_COVERAGE", "0x809E", 0),
       JS_PROP_DOUBLE_DEF("FUNC_ADD", "0x8006", 0),
       JS_PROP_DOUBLE_DEF("FUNC_SUBTRACT", "0x800A", 0),
       JS_PROP_DOUBLE_DEF("FUNC_REVERSE_SUBTRACT", "0x800B", 0),
       JS_PROP_DOUBLE_DEF("ONE", "1", 0),
       JS_PROP_DOUBLE_DEF("ZERO", "0", 0),
       JS_PROP_DOUBLE_DEF("SRC_ALPHA", "0x0302", 0),
       JS_PROP_DOUBLE_DEF("ONE_MINUS_SRC_ALPHA", "0x0303", 0),
       JS_PROP_DOUBLE_DEF("SRC_COLOR", "0x0300", 0),
       JS_PROP_DOUBLE_DEF("ONE_MINUS_SRC_COLOR", "0x0301", 0),
       JS_PROP_DOUBLE_DEF("DST_ALPHA", "0x0304", 0),
       JS_PROP_DOUBLE_DEF("ONE_MINUS_DST_ALPHA", "0x0305", 0),
       JS_PROP_DOUBLE_DEF("DST_COLOR", "0x0306", 0),
       JS_PROP_DOUBLE_DEF("ONE_MINUS_DST_COLOR", "0x0307", 0),
       JS_PROP_DOUBLE_DEF("CONSTANT_ALPHA", "0x8003", 0),
       JS_PROP_DOUBLE_DEF("ONE_MINUS_CONSTANT_ALPHA", "0x8004", 0),
       JS_PROP_DOUBLE_DEF("CONSTANT_COLOR", "0x8001", 0),
       JS_PROP_DOUBLE_DEF("ONE_MINUS_CONSTANT_COLOR", "0x8002", 0),
       JS_PROP_DOUBLE_DEF("FRONT", "0x0404", 0),
       JS_PROP_DOUBLE_DEF("BACK", "0x0405", 0),
       JS_PROP_DOUBLE_DEF("FRONT_AND_BACK", "0x0408", 0),
       JS_PROP_DOUBLE_DEF("CW", "0x0900", 0),
       JS_PROP_DOUBLE_DEF("CCW", "0x0901", 0),
       JS_PROP_DOUBLE_DEF("NEVER", "0x0200", 0),
       JS_PROP_DOUBLE_DEF("LESS", "0x0201", 0),
       JS_PROP_DOUBLE_DEF("EQUAL", "0x0202", 0),
       JS_PROP_DOUBLE_DEF("LEQUAL", "0x0203", 0),
       JS_PROP_DOUBLE_DEF("GREATER", "0x0204", 0),
       JS_PROP_DOUBLE_DEF("NOTEQUAL", "0x0205", 0),
       JS_PROP_DOUBLE_DEF("GEQUAL", "0x0206", 0),
       JS_PROP_DOUBLE_DEF("ALWAYS", "0x0207", 0),
       JS_PROP_DOUBLE_DEF("VIEWPORT", "0x0BA2", 0),
       JS_PROP_DOUBLE_DEF("SCISSOR_BOX", "0x0C10", 0),
       JS_PROP_DOUBLE_DEF("VERSION", "0x1F02", 0),
       JS_PROP_DOUBLE_DEF("SHADING_LANGUAGE_VERSION", "0x8B8C", 0),
       JS_PROP_DOUBLE_DEF("VENDOR", "0x1F00", 0),
       JS_PROP_DOUBLE_DEF("RENDERER", "0x1F01", 0),
       JS_PROP_DOUBLE_DEF("MAX_TEXTURE_IMAGE_UNITS", "0x8872", 0),
       JS_PROP_DOUBLE_DEF("MAX_VERTEX_ATTRIBS", "0x8869", 0),
       JS_PROP_DOUBLE_DEF("MAX_TEXTURE_SIZE", "0x0D33", 0),
       JS_PROP_DOUBLE_DEF("MAX_CUBE_MAP_TEXTURE_SIZE", "0x851C", 0),
       JS_PROP_DOUBLE_DEF("MAX_VERTEX_UNIFORM_VECTORS", "0x8DFB", 0),
       JS_PROP_DOUBLE_DEF("MAX_FRAGMENT_UNIFORM_VECTORS", "0x8DFD", 0),
       JS_PROP_DOUBLE_DEF("MAX_VARYING_VECTORS", "0x8DFC", 0),
       JS_PROP_DOUBLE_DEF("MAX_VERTEX_TEXTURE_IMAGE_UNITS", "0x8B4C", 0),
       JS_PROP_DOUBLE_DEF("MAX_COMBINED_TEXTURE_IMAGE_UNITS", "0x8B4D", 0),
       JS_PROP_DOUBLE_DEF("ALIASED_LINE_WIDTH_RANGE", "0x846E", 0),
       JS_PROP_DOUBLE_DEF("ALIASED_POINT_SIZE_RANGE", "0x846D", 0),
       JS_PROP_DOUBLE_DEF("MAX_VIEWPORT_DIMS", "0x0D3A", 0),
       JS_PROP_DOUBLE_DEF("SAMPLES", "0x80A9", 0),
       JS_PROP_DOUBLE_DEF("MAX_SAMPLES", "0x8D57", 0),
       JS_PROP_DOUBLE_DEF("IMPLEMENTATION_COLOR_READ_FORMAT", "0x8B9B", 0),
       JS_PROP_DOUBLE_DEF("IMPLEMENTATION_COLOR_READ_TYPE", "0x8B9A", 0),
       JS_PROP_DOUBLE_DEF("UNPACK_ALIGNMENT", "0x0CF5", 0),
       JS_PROP_DOUBLE_DEF("UNPACK_ROW_LENGTH", "0x0CF2", 0),
       JS_PROP_DOUBLE_DEF("UNPACK_SKIP_PIXELS", "0x0CF4", 0),
       JS_PROP_DOUBLE_DEF("UNPACK_SKIP_ROWS", "0x0CF3", 0),
       JS_PROP_DOUBLE_DEF("UNPACK_FLIP_Y_WEBGL", "0x9240", 0),
       JS_PROP_DOUBLE_DEF("UNPACK_PREMULTIPLY_ALPHA_WEBGL", "0x9241", 0),
       JS_PROP_DOUBLE_DEF("UNPACK_COLORSPACE_CONVERSION_WEBGL", "0x9243", 0),
       JS_PROP_DOUBLE_DEF("RGBA", "0x1908", 0),
       JS_PROP_DOUBLE_DEF("UNSIGNED_BYTE", "0x1401", 0),
       JS_PROP_DOUBLE_DEF("RGBA8", "0x8058", 0),
       JS_PROP_DOUBLE_DEF("RGB8", "0x8051", 0),
       JS_PROP_DOUBLE_DEF("SRGB8_ALPHA8", "0x8C43", 0),
       JS_PROP_DOUBLE_DEF("SRGB8", "0x8C41", 0),
       JS_PROP_DOUBLE_DEF("NO_ERROR", "0", 0),
       JS_PROP_DOUBLE_DEF("TEXTURE_2D", "0x0DE1", 0),
       JS_PROP_DOUBLE_DEF("TEXTURE_CUBE_MAP", "0x8513", 0),
       JS_PROP_DOUBLE_DEF("TEXTURE_3D", "0x806F", 0),
       JS_PROP_DOUBLE_DEF("TEXTURE_2D_ARRAY", "0x8C1A", 0),
       JS_PROP_DOUBLE_DEF("TEXTURE_CUBE_MAP_POSITIVE_X", "0x8515", 0),
       JS_PROP_DOUBLE_DEF("TEXTURE_CUBE_MAP_NEGATIVE_X", "0x8516", 0),
       JS_PROP_DOUBLE_DEF("TEXTURE_CUBE_MAP_POSITIVE_Y", "0x8517", 0),
       JS_PROP_DOUBLE_DEF("TEXTURE_CUBE_MAP_NEGATIVE_Y", "0x8518", 0),
       JS_PROP_DOUBLE_DEF("TEXTURE_CUBE_MAP_POSITIVE_Z", "0x8519", 0),
       JS_PROP_DOUBLE_DEF("TEXTURE_CUBE_MAP_NEGATIVE_Z", "0x851A", 0),
       JS_PROP_DOUBLE_DEF("TEXTURE_MIN_FILTER", "0x2801", 0),
       JS_PROP_DOUBLE_DEF("TEXTURE_MAG_FILTER", "0x2800", 0),
       JS_PROP_DOUBLE_DEF("TEXTURE_WRAP_S", "0x2802", 0),
       JS_PROP_DOUBLE_DEF("TEXTURE_WRAP_T", "0x2803", 0),
       JS_PROP_DOUBLE_DEF("CLAMP_TO_EDGE", "0x812F", 0),
       JS_PROP_DOUBLE_DEF("REPEAT", "0x2901", 0),
       JS_PROP_DOUBLE_DEF("MIRRORED_REPEAT", "0x8370", 0),
       JS_PROP_DOUBLE_DEF("NEAREST", "0x2600", 0),
       JS_PROP_DOUBLE_DEF("LINEAR", "0x2601", 0),
       JS_PROP_DOUBLE_DEF("NEAREST_MIPMAP_NEAREST", "0x2700", 0),
       JS_PROP_DOUBLE_DEF("LINEAR_MIPMAP_NEAREST", "0x2701", 0),
       JS_PROP_DOUBLE_DEF("NEAREST_MIPMAP_LINEAR", "0x2702", 0),
       JS_PROP_DOUBLE_DEF("LINEAR_MIPMAP_LINEAR", "0x2703", 0),
       JS_PROP_DOUBLE_DEF("TEXTURE0", "0x84C0", 0),
       JS_PROP_DOUBLE_DEF("LINK_STATUS", "0x8B82", 0),
       JS_PROP_DOUBLE_DEF("VALIDATE_STATUS", "0x8B83", 0),
       JS_PROP_DOUBLE_DEF("ATTACHED_SHADERS", "0x8B85", 0),
       JS_PROP_DOUBLE_DEF("ACTIVE_UNIFORMS", "0x8B86", 0),
       JS_PROP_DOUBLE_DEF("ACTIVE_ATTRIBUTES", "0x8B89", 0),
       JS_PROP_DOUBLE_DEF("FLOAT_VEC2", "0x8B50", 0),
       JS_PROP_DOUBLE_DEF("FLOAT_VEC3", "0x8B51", 0),
       JS_PROP_DOUBLE_DEF("FLOAT_VEC4", "0x8B52", 0),
       JS_PROP_DOUBLE_DEF("INT_VEC2", "0x8B53", 0),
       JS_PROP_DOUBLE_DEF("INT_VEC3", "0x8B54", 0),
       JS_PROP_DOUBLE_DEF("INT_VEC4", "0x8B55", 0),
       JS_PROP_DOUBLE_DEF("FLOAT_MAT4", "0x8B5C", 0),
       JS_PROP_DOUBLE_DEF("SAMPLER_2D", "0x8B5E", 0),
       JS_PROP_DOUBLE_DEF("SAMPLER_CUBE", "0x8B60", 0),
       JS_PROP_DOUBLE_DEF("SAMPLER_2D_SHADOW", "0x8B62", 0),
       JS_PROP_DOUBLE_DEF("SAMPLER_2D_ARRAY", "0x8DC1", 0),
       JS_PROP_DOUBLE_DEF("SAMPLER_2D_ARRAY_SHADOW", "0x8DC4", 0),
       JS_PROP_DOUBLE_DEF("SAMPLER_CUBE_SHADOW", "0x8DC5", 0),
       JS_PROP_DOUBLE_DEF("FRAMEBUFFER", "0x8D40", 0),
       JS_PROP_DOUBLE_DEF("RENDERBUFFER", "0x8D41", 0),
       JS_PROP_DOUBLE_DEF("FRAMEBUFFER_COMPLETE", "0x8CD5", 0),
       JS_PROP_DOUBLE_DEF("COLOR_ATTACHMENT0", "0x8CE0", 0),
       JS_PROP_DOUBLE_DEF("DEPTH_ATTACHMENT", "0x8D00", 0),
       JS_PROP_DOUBLE_DEF("STENCIL_ATTACHMENT", "0x8D20", 0),
       JS_PROP_DOUBLE_DEF("DEPTH_STENCIL_ATTACHMENT", "0x821A", 0),
       JS_PROP_DOUBLE_DEF("DEPTH_STENCIL", "0x84F9", 0) >>

\* line 597-665
js_global_object ==
    << JS_PROP_CLASS_DEF("Object", "js_object_class"),
       JS_PROP_CLASS_DEF("Function", "js_function_class"),
       JS_PROP_CLASS_DEF("Number", "js_number_class"),
       JS_PROP_CLASS_DEF("Boolean", "js_boolean_class"),
       JS_PROP_CLASS_DEF("String", "js_string_class"),
       JS_PROP_CLASS_DEF("Array", "js_array_class"),
       JS_PROP_CLASS_DEF("Math", "js_math_obj"),
       JS_PROP_CLASS_DEF("Date", "js_date_class"),
       JS_PROP_CLASS_DEF("JSON", "js_json_obj"),
       JS_PROP_CLASS_DEF("RegExp", "js_regexp_class"),
       JS_PROP_CLASS_DEF("Error", "js_error_class"),
       JS_PROP_CLASS_DEF("EvalError", "js_eval_error_class"),
       JS_PROP_CLASS_DEF("RangeError", "js_range_error_class"),
       JS_PROP_CLASS_DEF("ReferenceError", "js_reference_error_class"),
       JS_PROP_CLASS_DEF("SyntaxError", "js_syntax_error_class"),
       JS_PROP_CLASS_DEF("TypeError", "js_type_error_class"),
       JS_PROP_CLASS_DEF("URIError", "js_uri_error_class"),
       JS_PROP_CLASS_DEF("InternalError", "js_internal_error_class"),
       JS_PROP_CLASS_DEF("ArrayBuffer", "js_array_buffer_class"),
       JS_PROP_CLASS_DEF("Uint8ClampedArray", "js_Uint8ClampedArray_class"),
       JS_PROP_CLASS_DEF("Int8Array", "js_Int8Array_class"),
       JS_PROP_CLASS_DEF("Uint8Array", "js_Uint8Array_class"),
       JS_PROP_CLASS_DEF("Int16Array", "js_Int16Array_class"),
       JS_PROP_CLASS_DEF("Uint16Array", "js_Uint16Array_class"),
       JS_PROP_CLASS_DEF("Int32Array", "js_Int32Array_class"),
       JS_PROP_CLASS_DEF("Uint32Array", "js_Uint32Array_class"),
       JS_PROP_CLASS_DEF("Float32Array", "js_Float32Array_class"),
       JS_PROP_CLASS_DEF("Float64Array", "js_Float64Array_class"),
       JS_CFUNC_DEF("parseInt", 2, "js_number_parseInt"),
       JS_CFUNC_DEF("parseFloat", 1, "js_number_parseFloat"),
       JS_CFUNC_DEF("eval", 1, "js_global_eval"),
       JS_CFUNC_DEF("isNaN", 1, "js_global_isNaN"),
       JS_CFUNC_DEF("isFinite", 1, "js_global_isFinite"),
       JS_PROP_DOUBLE_DEF("Infinity", "1.0 / 0.0", 0),
       JS_PROP_DOUBLE_DEF("NaN", "NAN", 0),
       JS_PROP_UNDEFINED_DEF("undefined", 0),
       JS_PROP_NULL_DEF("globalThis", 0),
       JS_PROP_CLASS_DEF("console", "js_console_obj"),
       JS_PROP_CLASS_DEF("performance", "js_performance_obj"),
       JS_PROP_CLASS_DEF("gl", "js_gl_obj"),
       JS_CFUNC_DEF("print", 1, "js_print"),
       JS_CFUNC_DEF("setClearColor", 3, "js_setClearColor"),
       JS_CFUNC_DEF("requestAnimationFrame", 1, "js_requestAnimationFrame"),
       JS_CFUNC_DEF("cancelAnimationFrame", 1, "js_cancelAnimationFrame"),
       JS_CFUNC_DEF("__dom_noop", 0, "js_dom_noop"),
       JS_CFUNC_DEF("__dom_createElement", 1, "js_dom_createElement"),
       JS_CFUNC_DEF("__dom_createElementNS", 2, "js_dom_createElementNS"),
       JS_CFUNC_DEF("__dom_getContext", 1, "js_dom_getContext"),
       JS_CFUNC_SPECIAL_DEF("Image", 2, "constructor", "js_Image"),
       JS_CFUNC_DEF("__loadImage", 2, "js_loadImage"),
       JS_CFUNC_DEF("__freeImage", 1, "js_freeImage"),
       JS_CFUNC_DEF("gc", 0, "js_gc"),
       JS_CFUNC_DEF("load", 1, "js_load"),
       JS_CFUNC_DEF("setTimeout", 2, "js_setTimeout"),
       JS_CFUNC_DEF("clearTimeout", 1, "js_clearTimeout") >>

\* line 669-676
js_c_function_decl ==
    << JS_CFUNC_SPECIAL_DEF("bound", 0, "generic_params", "js_function_bound") >>

\* line 182-188: the uses of ERROR_DEF(cname, name, class_id)
ErrorDefs ==
    { <<"eval_error", "EvalError", "JS_CLASS_EVAL_ERROR">>,
      <<"range_error", "RangeError", "JS_CLASS_RANGE_ERROR">>,
      <<"reference_error", "ReferenceError", "JS_CLASS_REFERENCE_ERROR">>,
      <<"syntax_error", "SyntaxError", "JS_CLASS_SYNTAX_ERROR">>,
      <<"type_error", "TypeError", "JS_CLASS_TYPE_ERROR">>,
      <<"uri_error", "URIError", "JS_CLASS_URI_ERROR">>,
      <<"internal_error", "InternalError", "JS_CLASS_INTERNAL_ERROR">> }

\* line 174-178: the member table js_<cname>_proto ERROR_DEF declares
ERROR_DEF_proto(cname, name, class_id) ==
    << JS_PROP_STRING_DEF("name", name, 0) >>

\* line 280-288: the uses of TA_DEF(name, class_name, bpe)
TypedArrayDefs ==
    { <<"Uint8ClampedArray", "JS_CLASS_UINT8C_ARRAY", "1">>,
      <<"Int8Array", "JS_CLASS_INT8_ARRAY", "1">>,
      <<"Uint8Array", "JS_CLASS_UINT8_ARRAY", "1">>,
      <<"Int16Array", "JS_CLASS_INT16_ARRAY", "2">>,
      <<"Uint16Array", "JS_CLASS_UINT16_ARRAY", "2">>,
      <<"Int32Array", "JS_CLASS_INT32_ARRAY", "4">>,
      <<"Uint32Array", "JS_CLASS_UINT32_ARRAY", "4">>,
      <<"Float32Array", "JS_CLASS_FLOAT32_ARRAY", "4">>,
      <<"Float64Array", "JS_CLASS_FLOAT64_ARRAY", "8">> }

\* line 268-276: the member tables js_<name> and js_<name>_proto of TA_DEF
TA_DEF_props(name, class_name, bpe) ==
    << JS_PROP_DOUBLE_DEF("BYTES_PER_ELEMENT", bpe, 0) >>

\* every member table (JSPropDef array) of the registry, by its C name
MemberTables ==
    { <<"js_object_proto", js_object_proto>>,
      <<"js_object", js_object>>,
      <<"js_function_proto", js_function_proto>>,
      <<"js_number_proto", js_number_proto>>,
      <<"js_number", js_number>>,
      <<"js_string_proto", js_string_proto>>,
      <<"js_string", js_string>>,
      <<"js_array_proto", js_array_proto>>,
      <<"js_array", js_array>>,
      <<"js_error_proto", js_error_proto>>,
      <<"js_math", js_math>>,
      <<"js_json", js_json>>,
      <<"js_array_buffer_proto", js_array_buffer_proto>>,
      <<"js_typed_array_base_proto", js_typed_array_base_proto>>,
      <<"js_regexp_proto", js_regexp_proto>>,
      <<"js_date", js_date>>,
      <<"js_console", js_console>>,
      <<"js_performance", js_performance>>,
      <<"js_gl", js_gl>>,
      <<"js_global_object", js_global_object>>,
      <<"js_c_function_decl", js_c_function_decl>> }
    \cup { <<"js_" \o e[1] \o "_proto", ERROR_DEF_proto(e[1], e[2], e[3])>> :
             e \in ErrorDefs }
    \cup { <<"js_" \o e[1], TA_DEF_props(e[1], e[2], e[3])>> :
             e \in TypedArrayDefs }
    \cup { <<"js_" \o e[1] \o "_proto", TA_DEF_props(e[1], e[2], e[3])>> :
             e \in TypedArrayDefs }

TableNames == { p[1] : p \in MemberTables }

Table(t) == (CHOOSE p \in MemberTables : p[1] = t)[2]

\* the class id a class-id macro stands for
ClassId(class_id) ==
    IF class_id = "JS_CLASS_RECTANGLE" THEN JS_CLASS_RECTANGLE
    ELSE IF class_id = "JS_CLASS_FILLED_RECTANGLE"
    THEN JS_CLASS_FILLED_RECTANGLE
    ELSE ClassIdOf(class_id)

JS_CLASS_DEF(name, length, cproto, class_id, props, proto_props, parent, finalizer) ==
    [name |-> name, class_id |-> ClassId(class_id),
     class_props |-> props, proto_props |-> proto_props,
     parent_class |-> parent, finalizer |-> finalizer]

JS_CLASS_MAGIC_DEF(name, length, cproto, class_id, props, proto_props, parent, finalizer) ==
    JS_CLASS_DEF(name, length, cproto, class_id, props, proto_props, parent,
                 finalizer)

\* the descriptor naming itself as its parent
ERROR_DEF_class_own_parent(cname, name, class_id) ==
    JS_CLASS_MAGIC_DEF(name, 1, "js_error_constructor", class_id, "NULL",
                       "js_" \o cname \o "_proto",
                       "js_" \o cname \o "_class", "NULL")

\* line 179-180: the class descriptor js_<cname>_class ERROR_DEF declares
ERROR_DEF_class(cname, name, class_id) ==
    JS_CLASS_MAGIC_DEF(name, 1, "js_error_constructor", class_id, "NULL",
                       "js_" \o cname \o "_proto", "js_error_class", "NULL")

\* line 277-278: the class descriptor js_<name>_class TA_DEF declares
TA_DEF_class(name, class_name, bpe) ==
    JS_CLASS_MAGIC_DEF(name, 3, "js_typed_array_constructor", class_name,
                       "js_" \o name, "js_" \o name \o "_proto",
                       "js_typed_array_base_class", "NULL")

\* the descriptors of the example classes of js_runtime.c: FilledRectangle
\* derives from Rectangle
js_rectangle_class ==
    JS_CLASS_DEF("Rectangle", 2, "js_rectangle_constructor",
                 "JS_CLASS_RECTANGLE", "NULL", "NULL", "NULL",
                 "js_rectangle_finalizer")

js_filled_rectangle_class ==
    JS_CLASS_DEF("FilledRectangle", 2, "js_filled_rectangle_constructor",
                 "JS_CLASS_FILLED_RECTANGLE", "NULL", "NULL",
                 "js_rectangle_class", "js_filled_rectangle_finalizer")

\* every class descriptor (JSClassDef with a class id), by its C name
ClassDefs ==
    { <<"js_object_class",
        JS_CLASS_DEF("Object", 1, "js_object_constructor", "JS_CLASS_OBJECT",
                     "js_object", "js_object_proto", "NULL", "NULL")>>,
      <<"js_function_class",
        JS_CLASS_DEF("Function", 1, "js_function_constructor",
                     "JS_CLASS_CLOSURE", "NULL", "js_function_proto", "NULL",
                     "NULL")>>,
      <<"js_number_class",
        JS_CLASS_DEF("Number", 1, "js_number_constructor", "JS_CLASS_NUMBER",
                     "js_number", "js_number_proto", "NULL", "NULL")>>,
      <<"js_boolean_class",
        JS_CLASS_DEF("Boolean", 1, "js_boolean_constructor",
                     "JS_CLASS_BOOLEAN", "NULL", "NULL", "NULL", "NULL")>>,
      <<"js_string_class",
        JS_CLASS_DEF("String", 1, "js_string_constructor", "JS_CLASS_STRING",
                     "js_string", "js_string_proto", "NULL", "NULL")>>,
      <<"js_array_class",
        JS_CLASS_DEF("Array", 1, "js_array_constructor", "JS_CLASS_ARRAY",
                     "js_array", "js_array_proto", "NULL", "NULL")>>,
      <<"js_error_class",
        JS_CLASS_MAGIC_DEF("Error", 1, "js_error_constructor",
                           "JS_CLASS_ERROR", "NULL", "js_error_proto", "NULL",
                           "NULL")>>,
      <<"js_array_buffer_class",
        JS_CLASS_DEF("ArrayBuffer", 1, "js_array_buffer_constructor",
                     "JS_CLASS_ARRAY_BUFFER", "NULL", "js_array_buffer_proto",
                     "NULL", "NULL")>>,
      <<"js_typed_array_base_class",
        JS_CLASS_DEF("TypedArray", 0, "js_typed_array_base_constructor",
                     "JS_CLASS_TYPED_ARRAY", "NULL",
                     "js_typed_array_base_proto", "NULL", "NULL")>>,
      <<"js_regexp_class",
        JS_CLASS_DEF("RegExp", 2, "js_regexp_constructor", "JS_CLASS_REGEXP",
                     "NULL", "js_regexp_proto", "NULL", "NULL")>>,
      <<"js_date_class",
        JS_CLASS_DEF("Date", 7, "js_date_constructor", "JS_CLASS_DATE",
                     "js_date", "NULL", "NULL", "NULL")>>,
      <<"js_rectangle_class", js_rectangle_class>>,
      <<"js_filled_rectangle_class", js_filled_rectangle_class>> }
    \cup { <<"js_" \o e[1] \o "_class", ERROR_DEF_class(e[1], e[2], e[3])>> :
             e \in ErrorDefs }
    \cup { <<"js_" \o e[1] \o "_class", TA_DEF_class(e[1], e[2], e[3])>> :
             e \in TypedArrayDefs }

ClassDef(cname) == (CHOOSE p \in ClassDefs : p[1] = cname)[2]

ClassIds == { p[2].class_id : p \in ClassDefs }

\* the class id of the parent of the class with id c, or -1 for a root
ClassParents ==
    [c \in ClassIds |->
       LET d == (CHOOSE p \in ClassDefs : p[2].class_id = c)[2]
       IN  IF d.parent_class = "NULL" THEN -1
           ELSE ClassDef(d.parent_class).class_id]

ClassParent(c) == ClassParents[c]

\* the membership test: c is anc, or a class reachable from c by following
\* parent_class is
RECURSIVE IsA(_, _)
IsA(c, anc) ==
    IF c = anc THEN TRUE
    ELSE IF ClassParent(c) = -1 THEN FALSE
    ELSE IsA(ClassParent(c), anc)

\* the index of the registry: for each table and name, the entries of the
\* table that carry the name
MemberIndex ==
    [t \in TableNames |->
       LET tab == Table(t)
       IN  [name \in { tab[i].name : i \in DOMAIN tab } |->
              { j \in DOMAIN tab : tab[j].name = name }]]

\* a member is looked up by exact name in one table: the entries found
Lookup ==
    /\ \E t \in TableNames : \E name \in DOMAIN MemberIndex[t] :
         reg' = [op |-> "lookup", table |-> t, name |-> name,
                 found |-> MemberIndex[t][name], out |-> <<>>]
    /\ UNCHANGED <<heap, blocks, roots, gcrefs, frames, ret, crashed, host>>

\* strings a trim member is called on: sequences of characters
TrimReceivers ==
    { <<" ", " ", "x", " ", " ">>, <<"x">>, <<" ", "x">>, <<"x", " ">>,
      <<" ", " ">>, <<>> }

RECURSIVE TrimLeft(_)
TrimLeft(s) ==
    IF s # <<>> /\ Head(s) = " " THEN TrimLeft(Tail(s)) ELSE s

RECURSIVE TrimRight(_)
TrimRight(s) ==
    IF s # <<>> /\ s[Len(s)] = " "
    THEN TrimRight(SubSeq(s, 1, Len(s) - 1)) ELSE s

\* the number a magic discriminator of the string table stands for
MagicValue(magic) ==
    IF magic = "1" THEN 1 ELSE IF magic = "2" THEN 2
    ELSE IF magic = "3" THEN 3 ELSE 0

\* the shared implementation of trim, trimStart and trimEnd: bit 0 of
\* magic strips the start of the string, bit 1 its end
js_string_trim(s, magic) ==
    LET a == IF MagicValue(magic) % 2 = 1 THEN TrimLeft(s) ELSE s
    IN  IF (MagicValue(magic) \div 2) % 2 = 1 THEN TrimRight(a) ELSE a

\* the names of js_string_proto registered against js_string_trim
TrimMembers ==
    { js_string_proto[i].name : i \in { j \in DOMAIN js_string_proto :
                                  js_string_proto[j].impl = "js_string_trim" } }

\* script calls a trim member of the string prototype on s: the entry is
\* resolved by name and its implementation runs with the entry's magic
CallStringMember ==
    /\ \E name \in TrimMembers, s \in TrimReceivers :
         LET found == MemberIndex["js_string_proto"][name]
             e == js_string_proto[CHOOSE i \in found : \A j \in found : i <= j]
         IN  reg' = [op |-> "call", table |-> "js_string_proto",
                     name |-> name, found |-> found,
                     out |-> [impl |-> e.impl, magic |-> e.magic, recv |-> s,
                              result |-> js_string_trim(s, e.magic)]]
    /\ UNCHANGED <<heap, blocks, roots, gcrefs, frames, ret, crashed, host>>

\* the classes met by following parent_class from c, for at most n steps
RECURSIVE ParentChain(_, _)
ParentChain(c, n) ==
    IF n = 0 \/ ClassParent(c) = -1 THEN <<c>>
    ELSE <<c>> \o ParentChain(ClassParent(c), n - 1)

\* the parent links of a class are followed up to a root
WalkParents ==
    /\ \E c \in ClassIds :
         reg' = [op |-> "ancestry", table |-> "none", name |-> "none",
                 found |-> {},
                 out |-> [class |-> c,
                          descriptors |-> { p[1] : p \in { q \in ClassDefs :
                                              q[2].class_id = c } },
                          chain |-> ParentChain(c, Cardinality(ClassIds))]]
    /\ UNCHANGED <<heap, blocks, roots, gcrefs, frames, ret, crashed, host>>

----------------------------------------------------------------------------
(* The host API: js_runtime_new, js_runtime_free, js_runtime_eval.  The    *)
(* host state h records the handle, the allocations outstanding, the       *)
(* exception pending in the context and the outcome of the last call.      *)

NoHost ==
    [rt |-> "none", allocs |-> {}, bad |-> FALSE, pending |-> "none",
     made |-> 0, hist |-> <<>>,
     last |-> [op |-> "none", status |-> "none", trace |-> <<>>,
               input |-> <<>>]]

\* malloc or JS_NewContext gave the resource a
Acquire(h, a) ==
    [h EXCEPT !.allocs = @ \cup {a},
              !.last.trace = Append(@, "acquire " \o a)]

\* free or JS_FreeContext releases a; releasing what is not held is an
\* invalid free
Release(h, a) ==
    [h EXCEPT !.allocs = @ \ {a}, !.bad = @ \/ a \notin h.allocs,
              !.last.trace = Append(@, "release " \o a)]

\* the call op with its input begins; it ends with status
Begin(h, op, input) ==
    [h EXCEPT !.last = [op |-> op, status |-> "none", trace |-> <<>>,
                        input |-> input]]

End(h, status) == [h EXCEPT !.last.status = status]

\* js_runtime_new with the handle not freed when the buffer cannot be
\* allocated
js_runtime_new_keeps_handle(h, rtOK, bufOK, ctxOK) ==
    LET h0 == Begin(h, "new", <<rtOK, bufOK, ctxOK>>)
    IN  IF ~rtOK THEN End(h0, "NULL")
        ELSE LET h1 == Acquire(h0, "rt")
             IN  IF ~bufOK THEN End(h1, "NULL")
                 ELSE LET h2 == Acquire(h1, "mem_buf")
                      IN  IF ~ctxOK
                          THEN End(Release(Release(h2, "mem_buf"), "rt"),
                                   "NULL")
                          ELSE End([Acquire(h2, "ctx") EXCEPT
                                      !.rt = "live", !.pending = "none",
                                      !.made = @ + 1, !.hist = <<>>], "rt")

\* line 207-227; rtOK, bufOK: the two mallocs succeed; ctxOK: JS_NewContext
\* does
js_runtime_new(h, rtOK, bufOK, ctxOK) ==
    LET h0 == Begin(h, "new", <<rtOK, bufOK, ctxOK>>)
    IN  IF ~rtOK THEN End(h0, "NULL")
        ELSE LET h1 == Acquire(h0, "rt")
             IN  IF ~bufOK THEN End(Release(h1, "rt"), "NULL")
                 ELSE LET h2 == Acquire(h1, "mem_buf")
                      IN  IF ~ctxOK
                          THEN End(Release(Release(h2, "mem_buf"), "rt"),
                                   "NULL")
                          ELSE End([Acquire(h2, "ctx") EXCEPT
                                      !.rt = "live", !.pending = "none",
                                      !.made = @ + 1, !.hist = <<>>], "rt")

\* js_runtime_free releasing the buffer before the context that lives in it
js_runtime_free_buffer_first(h, null) ==
    LET h0 == Begin(h, "free", <<null>>)
    IN  IF null THEN End(h0, "void")
        ELSE LET h1 == IF "mem_buf" \in h0.allocs
                       THEN Release(h0, "mem_buf") ELSE h0
                 h2 == IF "ctx" \in h1.allocs THEN Release(h1, "ctx") ELSE h1
             IN  End([Release(h2, "rt") EXCEPT !.rt = "freed"], "void")

\* line 229-236; null: the handle passed is NULL
js_runtime_free(h, null) ==
    LET h0 == Begin(h, "free", <<null>>)
    IN  IF null THEN End(h0, "void")
        ELSE LET h1 == IF "ctx" \in h0.allocs THEN Release(h0, "ctx") ELSE h0
                 h2 == IF "mem_buf" \in h1.allocs
                       THEN Release(h1, "mem_buf") ELSE h1
             IN  End([Release(h2, "rt") EXCEPT !.rt = "freed"], "void")

\* js_runtime_eval returning -1 without fetching the exception
js_runtime_eval_leaves_pending(h, raised) ==
    LET h0 == Begin(h, "eval", <<raised>>)
        h1 == [h0 EXCEPT !.pending = IF raised THEN "Error" ELSE "none",
                         !.last.trace = Append(@, "JS_Eval")]
    IN  IF h1.pending # "none"
        THEN End([h1 EXCEPT !.hist = Append(@, -1)], -1)
        ELSE End([h1 EXCEPT !.hist = Append(@, 0)], 0)

\* line 238-248; raised: the evaluation of the source text throws, so
\* JS_Eval returns JS_EXCEPTION with the exception pending
js_runtime_eval(h, raised) ==
    LET h0 == Begin(h, "eval", <<raised>>)
        h1 == [h0 EXCEPT !.pending = IF raised THEN "Error" ELSE "none",
                         !.last.trace = Append(@, "JS_Eval")]
    IN  IF h1.pending # "none"
        THEN End([h1 EXCEPT !.pending = "none",
                            !.last.trace = @ \o <<"JS_GetException",
                                                  "JS_PrintValueF", "printf">>,
                            !.hist = Append(@, -1)], -1)
        ELSE End([h1 EXCEPT !.hist = Append(@, 0)], 0)

\* the host creates a runtime; it holds one handle at a time
RuntimeNew ==
    /\ host.rt # "live"
    /\ host.made < MaxRuntimes
    /\ \E rtOK \in BOOLEAN, bufOK \in BOOLEAN, ctxOK \in BOOLEAN :
         host' = js_runtime_new(host, rtOK, bufOK, ctxOK)
    /\ UNCHANGED <<heap, blocks, roots, gcrefs, frames, ret, crashed, reg>>

\* the host destroys its runtime, or passes NULL after a failed create
RuntimeFree ==
    /\ \/ host.rt = "live" /\ host' = js_runtime_free(host, FALSE)
       \/ host.rt # "live" /\ host.last.op # "free"
                           /\ host' = js_runtime_free(host, TRUE)
    /\ UNCHANGED <<heap, blocks, roots, gcrefs, frames, ret, crashed, reg>>

\* the host evaluates a source text on its live handle
RuntimeEval ==
    /\ host.rt = "live"
    /\ Len(host.hist) < MaxEvals
    /\ \E raised \in BOOLEAN : host' = js_runtime_eval(host, raised)
    /\ UNCHANGED <<heap, blocks, roots, gcrefs, frames, ret, crashed, reg>>

----------------------------------------------------------------------------
(* The runtime as a state machine.                                         *)

NoQuery ==
    [op |-> "none", table |-> "none", name |-> "none", found |-> {},
     out |-> <<>>]

Init ==
    /\ heap = <<>>
    /\ blocks = <<>>
    /\ roots = {}
    /\ gcrefs = <<>>
    /\ frames = <<>>
    /\ ret = NoRet
    /\ crashed = FALSE
    /\ reg = NoQuery
    /\ host = NoHost

Next ==
    \/ CallRectangle
    \/ RectConvertX
    \/ RectConvertY
    \/ RectReturn
    \/ CallFilledRectangle
    \/ FilledConvertX
    \/ FilledConvertY
    \/ FilledConvertColor
    \/ FilledReturn
    \/ Collect
    \/ DropRef
    \/ GetX
    \/ GetY
    \/ GetColor
    \/ RectangleCall
    \/ CallPrint

Spec == Init /\ [][Next]_vars

\* the registry alone: it is static data, queried by name
NextRegistry ==
    \/ Lookup
    \/ CallStringMember
    \/ WalkParents

SpecRegistry == Init /\ [][NextRegistry]_vars

\* the host API alone
NextHost ==
    \/ RuntimeNew
    \/ RuntimeEval
    \/ RuntimeFree

SpecHost == Init /\ [][NextHost]_vars

----------------------------------------------------------------------------
(* Properties.                                                             *)

Constructors ==
    { "js_rectangle_constructor", "js_filled_rectangle_constructor" }

\* the source lines that convert an argument
ConversionLines == { 42, 44, 115, 117, 119 }

\* the instance a constructor frame is building
Instance(f) == IF f.ref # 0 THEN gcrefs[f.ref].val ELSE f.obj

\* C1: a call of either constructor whose argc lacks the FRAME_CF_CTOR bit
\* ends with a pending TypeError and the exception signal, having allocated
\* no object, malloc'ed no block and pushed no protected reference; no such
\* call gets past the check.
C1_PlainCallRejected ==
    /\ \A i \in DOMAIN frames : frames[i].new
    /\ (ret.fn \in Constructors /\ ~ret.new) =>
          /\ ret.kind = "exception"
          /\ ret.exc = "TypeError"
          /\ ret.dobj = 0
          /\ ret.dblk = 0
          /\ ret.dref = 0
          /\ ret.steps = <<"throw">>

\* a plain call FilledRectangle(...) made while an instance exists was
\* rejected
C1_Witness ==
    /\ ret.fn = "js_filled_rectangle_constructor"
    /\ ~ret.new
    /\ ret.kind = "exception"
    /\ heap # <<>>

\* C2: at every return of js_filled_rectangle_constructor, normal or early,
\* the protected-reference stack is as deep as it was at entry: the slot
\* pushed by JS_PushGCRef has been popped.
C2_EveryPushPopped ==
    (ret.fn = "js_filled_rectangle_constructor"
       /\ ret.kind \in {"value", "exception"}) => ret.dref = 0

\* C3: whenever a constructor is at an argument conversion, the instance
\* it is building is registered in the protected-reference stack.
C3_InstanceRegisteredAtConversions ==
    \A i \in DOMAIN frames :
       frames[i].pc \in ConversionLines => Registered(Instance(frames[i]))

\* C4: the finalizer runs at most once on a block and frees it at most
\* once, never while the owning instance is still referenced (by script, by
\* a protected reference or by the constructor that is building it), and
\* a block that went through a further collection after its finalization
\* has been finalized and freed exactly once.
C4_FinalizedOnceWhenUnreachable ==
    \A b \in DOMAIN blocks :
       /\ blocks[b].finalized <= 1
       /\ blocks[b].freed <= 1
       /\ blocks[b].sweeps >= 1 =>
             blocks[b].finalized = 1 /\ blocks[b].freed = 1
       /\ blocks[b].state = "Finalized" =>
             /\ blocks[b].owner \notin roots
             /\ ~Registered(blocks[b].owner)
             /\ \A i \in DOMAIN frames : Instance(frames[i]) # blocks[b].owner

\* JS_SetOpaque occurs exactly once in the steps s of a construction, after
\* the instance allocation and before every argument conversion
AttachedOnceInOrder(s) ==
    LET at(w) == { i \in DOMAIN s : s[i] = w }
    IN  /\ Cardinality(at("setopaque")) = 1
        /\ \A i \in at("setopaque") :
              /\ \E j \in at("newobject") : j < i
              /\ \A j \in at("conv0") \cup at("conv1") \cup at("conv2") : i < j

\* C5: in each constructor JS_SetOpaque happens exactly once per
\* construction, successful or failed, after the instance allocation and
\* before the first argument conversion; every block is attached once.
C5_AttachedOnceBeforeConversions ==
    /\ \A i \in DOMAIN frames : AttachedOnceInOrder(frames[i].steps)
    /\ (ret.fn \in Constructors /\ ret.new /\ ret.kind # "fault") =>
          AttachedOnceInOrder(ret.steps)
    /\ \A b \in DOMAIN blocks :
          blocks[b].attached = 1 /\ blocks[b].state # "Unattached"

\* a construction failed at its second conversion, after the attachment
C5_Witness ==
    /\ ret.fn = "js_rectangle_constructor"
    /\ ret.kind = "exception"
    /\ ret.steps = <<"check", "newobject", "malloc", "setopaque",
                     "conv0", "conv1", "fail">>

\* C6: get_color on a receiver whose class id is not
\* JS_CLASS_FILLED_RECTANGLE ends with a pending TypeError and does not
\* read the receiver's opaque block.
C6_GetColorRejectsOtherClasses ==
    (ret.fn = "js_filled_rectangle_get_color"
       /\ ret.cls # JS_CLASS_FILLED_RECTANGLE) =>
          /\ ret.kind = "exception"
          /\ ret.exc = "TypeError"
          /\ ~ret.read

\* get_color was called on a live plain Rectangle instance
C6_Witness ==
    /\ ret.fn = "js_filled_rectangle_get_color"
    /\ ret.recv \in DOMAIN heap
    /\ heap[ret.recv].alive
    /\ heap[ret.recv].class_id = JS_CLASS_RECTANGLE
    /\ ret.cls = JS_CLASS_RECTANGLE

\* what the membership test asks of an accessor result r on class id c
AgreesWithAncestry(c, r) ==
    IF IsA(c, JS_CLASS_RECTANGLE)
    THEN r.kind = "value" /\ r.read
    ELSE r.kind = "exception" /\ r.exc = "TypeError" /\ ~r.read

\* C7: get_x and get_y succeed exactly on receivers whose class is
\* Rectangle or has Rectangle on its parent chain, and raise a TypeError
\* without reading the opaque block otherwise: the hard-coded check agrees
\* with the membership test for every class of the registry.
C7_AccessorsFollowAncestry ==
    /\ \A c \in ClassIds, j \in JunkVals :
          LET d == [i \in 1..FilledRectangleData_size |-> j]
          IN  /\ AgreesWithAncestry(c, js_rectangle_get_x(c, d))
              /\ AgreesWithAncestry(c, js_rectangle_get_y(c, d))
    /\ ret.fn \in {"js_rectangle_get_x", "js_rectangle_get_y"} =>
          AgreesWithAncestry(ret.cls, ret)

\* get_x succeeded on a live FilledRectangle instance
C7_Witness ==
    /\ ret.fn = "js_rectangle_get_x"
    /\ ret.recv \in DOMAIN heap
    /\ heap[ret.recv].alive
    /\ ret.cls = JS_CLASS_FILLED_RECTANGLE
    /\ ret.kind = "value"

\* a live Rectangle r and a live FilledRectangle f built from the same
\* int32 x and y, their blocks as the constructors left them
SameXY(r, f) ==
    /\ heap[r].alive /\ heap[r].class_id = JS_CLASS_RECTANGLE
    /\ heap[f].alive /\ heap[f].class_id = JS_CLASS_FILLED_RECTANGLE
    /\ heap[r].int32_args # <<>>
    /\ heap[f].int32_args # <<>>
    /\ SubSeq(heap[f].int32_args, 1, 2) = heap[r].int32_args
    /\ ~blocks[heap[r].opaque].clobbered
    /\ ~blocks[heap[f].opaque].clobbered

FieldOf(fn) ==
    IF fn = "js_rectangle_get_x" THEN 1
    ELSE IF fn = "js_rectangle_get_y" THEN 2 ELSE 3

C10_MemberNamesUnique ==
    reg.op = "lookup" => Cardinality(reg.found) = 1

\* C11: trimStart is registered with magic 1 and trimEnd with magic 2
\* against js_string_trim, the implementation receives the magic registered
\* for the name called, so trimStart on "  x  " gives "x  " and trimEnd
\* gives "  x".
C11_TrimMagicDispatch ==
    (reg.op = "call" /\ reg.table = "js_string_proto") =>
       LET spaced == <<" ", " ", "x", " ", " ">>
       IN  /\ reg.name = "trimStart" =>
                /\ reg.out.impl = "js_string_trim"
                /\ reg.out.magic = "1"
                /\ reg.out.recv = spaced => reg.out.result = <<"x", " ", " ">>
           /\ reg.name = "trimEnd" =>
                /\ reg.out.impl = "js_string_trim"
                /\ reg.out.magic = "2"
                /\ reg.out.recv = spaced => reg.out.result = <<" ", " ", "x">>
           /\ \A i \in reg.found :
                /\ js_string_proto[i].impl = reg.out.impl
                /\ js_string_proto[i].magic = reg.out.magic

\* trimEnd was called on "  x  "
C11_Witness ==
    /\ reg.op = "call"
    /\ reg.name = "trimEnd"
    /\ reg.out.recv = <<" ", " ", "x", " ", " ">>
    /\ reg.out.result = <<" ", " ", "x">>

\* C12: every class id has one descriptor, hence at most one parent, and
\* the parent links followed from any class reach a root without visiting
\* a class twice.
C12_ParentChainsAcyclic ==
    reg.op = "ancestry" =>
       LET chain == reg.out.chain
       IN  /\ Cardinality(reg.out.descriptors) = 1
           /\ \A i \in DOMAIN chain, j \in DOMAIN chain :
                 chain[i] = chain[j] => i = j
           /\ ClassParent(chain[Len(chain)]) = -1
           /\ Len(chain) <= Cardinality(ClassIds)

\* the parent links of an error subclass were followed to Error
C12_Witness ==
    /\ reg.op = "ancestry"
    /\ reg.out.class = ClassId("JS_CLASS_TYPE_ERROR")
    /\ reg.out.chain = <<ClassId("JS_CLASS_TYPE_ERROR"), ClassId("JS_CLASS_ERROR")>>

\* the native functions of js_runtime.c that script can call
NativeFunctions ==
    Constructors \cup
    { "js_rectangle_get_x", "js_rectangle_get_y",
      "js_filled_rectangle_get_color", "js_rectangle_call", "js_print" }

C14_AllocationFailureRaises ==
    /\ ret.fn \in Constructors => ret.kind # "fault"
    /\ \A i \in DOMAIN frames :
          frames[i].d # 0 /\ Instance(frames[i]) # -1

\* C16: each attached opaque block is owned by exactly one instance, no
\* block is attached twice or to two instances, and every constructed
\* instance script holds owns exactly one block.
C16_OneBlockPerInstance ==
    /\ \A b \in DOMAIN blocks :
          /\ blocks[b].attached <= 1
          /\ blocks[b].state = "Attached" =>
                { o \in DOMAIN heap : heap[o].alive /\ heap[o].opaque = b }
                   = { blocks[b].owner }
    /\ \A o \in DOMAIN heap, p \in DOMAIN heap :
          (heap[o].opaque # 0 /\ heap[o].opaque = heap[p].opaque) => o = p
    /\ \A o \in roots :
          heap[o].alive =>
             /\ heap[o].opaque \in DOMAIN blocks
             /\ blocks[heap[o].opaque].owner = o
             /\ blocks[heap[o].opaque].state = "Attached"

\* script holds two live instances, each with its own attached block
C16_Witness ==
    \E o \in roots, p \in roots :
       /\ o # p
       /\ heap[o].alive /\ heap[p].alive
       /\ blocks[heap[o].opaque].state = "Attached"
       /\ blocks[heap[p].opaque].state = "Attached"
       /\ heap[o].opaque # heap[p].opaque

\* the class ids of the built-in classes
BuiltinClassIds ==
    { ClassIdOf(BuiltinClassNames[i]) : i \in DOMAIN BuiltinClassNames }

\* C17: the class ids of Rectangle and FilledRectangle differ from each
\* other and from every built-in class id, are at least JS_CLASS_USER and
\* below JS_CLASS_COUNT, and no step changes the class id of an instance.
C17_ClassIdsDistinctAndStable ==
    [][/\ JS_CLASS_RECTANGLE # JS_CLASS_FILLED_RECTANGLE
       /\ \A c \in {JS_CLASS_RECTANGLE, JS_CLASS_FILLED_RECTANGLE} :
             /\ c >= JS_CLASS_USER
             /\ c < JS_CLASS_COUNT
             /\ c \notin BuiltinClassIds
       /\ \A o \in DOMAIN heap :
             /\ heap[o].class_id
                   \in {JS_CLASS_RECTANGLE, JS_CLASS_FILLED_RECTANGLE}
             /\ o \in DOMAIN heap' => heap'[o].class_id = heap[o].class_id
      ]_vars

\* a Rectangle and a FilledRectangle are alive after a collection ran
C17_Witness ==
    /\ \E o \in roots, p \in roots :
          /\ heap[o].alive /\ heap[o].class_id = JS_CLASS_RECTANGLE
          /\ heap[p].alive /\ heap[p].class_id = JS_CLASS_FILLED_RECTANGLE
    /\ ret.fn = "js_print"

\* the steps s convert the arguments in index order and end at the first
\* failure
ConvertedInOrder(s) ==
    LET conv == SelectSeq(s, LAMBDA w : w \in {"conv0", "conv1", "conv2"})
    IN  /\ conv = SubSeq(<<"conv0", "conv1", "conv2">>, 1, Len(conv))
        /\ s[Len(s)] = "fail"
        /\ s[Len(s) - 1] = conv[Len(conv)]

\* the live instances no script reference and no running constructor holds
Unreturned ==
    { o \in DOMAIN heap :
        /\ heap[o].alive
        /\ o \notin roots
        /\ \A i \in DOMAIN frames : Instance(frames[i]) # o }

\* C18: a failed conversion ends the constructor at once with the
\* exception signal, after conversions made in index order, without
\* returning the instance; the block stays attached to the unreturned
\* instance and the next collection finalizes and frees it exactly once.
C18_FailedConstructionReleased ==
    [][/\ (ret.fn \in Constructors /\ ret.new /\ ret.kind = "exception") =>
             ConvertedInOrder(ret.steps) /\ ret.obj = 0
       /\ Collect =>
             /\ ~crashed'
             /\ \A o \in Unreturned :
                   /\ ~heap'[o].alive
                   /\ heap[o].opaque # 0 =>
                         /\ blocks[heap[o].opaque].state = "Attached"
                         /\ blocks'[heap[o].opaque].finalized = 1
                         /\ blocks'[heap[o].opaque].freed = 1
      ]_vars

\* C19: no store of a constructor and no read of a getter touches an
\* opaque block after its finalizer has freed it, also when a collection
\* runs during an argument conversion.
C19_NoUseAfterFinalize ==
    /\ \A b \in DOMAIN blocks : ~blocks[b].uaf
    /\ ~ret.dangling

\* C15: js_runtime_eval returns 0 exactly when the evaluation raised no
\* exception and -1 exactly when it raised one; in the -1 case it fetches
\* and prints the exception first, so none is pending when it returns and
\* the next evaluation on the handle starts with none pending.
C15_EvalStatus ==
    /\ host.pending = "none"
    /\ host.last.op = "eval" =>
          LET raised == host.last.input[1]
              trace == host.last.trace
          IN  /\ host.last.status = 0 <=> ~raised
              /\ host.last.status = -1 <=> raised
              /\ host.rt = "live"
              /\ raised => trace = <<"JS_Eval", "JS_GetException",
                                     "JS_PrintValueF", "printf">>
              /\ ~raised => trace = <<"JS_Eval">>

\* an evaluation succeeded on the handle on which the previous one failed
C15_Witness ==
    /\ host.last.op = "eval"
    /\ host.last.status = 0
    /\ Len(host.hist) >= 2
    /\ host.hist[Len(host.hist) - 1] = -1

\* C20: js_runtime_new returns a handle exactly when the handle, the
\* buffer and the context were all created, and then all three are held;
\* when it returns NULL everything it allocated has been freed again.
C20_NewAllOrNothing ==
    host.last.op = "new" =>
       LET in == host.last.input
       IN  /\ host.last.status = "rt" <=> (in[1] /\ in[2] /\ in[3])
           /\ host.last.status = "NULL" <=> ~(in[1] /\ in[2] /\ in[3])
           /\ host.last.status = "rt" =>
                 host.allocs = {"rt", "mem_buf", "ctx"} /\ host.rt = "live"
           /\ host.last.status = "NULL" =>
                 host.allocs = {} /\ host.rt # "live"
           /\ ~host.bad

\* the context could not be created: the buffer and the handle were freed
C20_Witness ==
    /\ host.last.op = "new"
    /\ host.last.status = "NULL"
    /\ host.last.input = <<TRUE, TRUE, FALSE>>
    /\ host.last.trace = <<"acquire rt", "acquire mem_buf",
                           "release mem_buf", "release rt">>

\* C21: js_runtime_free on a NULL handle changes nothing; on a live handle
\* it releases the context, then the buffer, then the handle, each exactly
\* once, and nothing stays allocated: the context is never released after
\* the buffer that backs it.
C21_FreeOrder ==
    [][(host'.last.op = "free" /\ host' # host) =>
         IF host'.last.input[1]
         THEN host' = [host EXCEPT !.last = [op |-> "free", status |-> "void",
                                             trace |-> <<>>,
                                             input |-> <<TRUE>>]]
         ELSE /\ host.rt = "live"
              /\ host.allocs = {"rt", "mem_buf", "ctx"}
              /\ host'.last.trace = <<"release ctx", "release mem_buf",
                                      "release rt">>
              /\ host'.allocs = {}
              /\ host'.rt = "freed"
              /\ ~host'.bad]_vars

\* a handle on which an evaluation had run was freed
C21_Witness ==
    /\ host.last.op = "free"
    /\ host.last.input = <<FALSE>>
    /\ host.rt = "freed"
    /\ host.hist # <<>>
    /\ host.allocs = {}

\* what js_rectangle_call must come back with on argv, stackOK and callee
CallProtocol(r, argv, stackOK, callee) ==
    IF ~stackOK
    THEN /\ r.kind = "exception"
         /\ r.steps = <<"stackcheck">>
         /\ r.call = <<>>
    ELSE /\ r.steps = <<"stackcheck", "push argv[1]", "push argv[0]",
                        "push null", "call 1">>
         /\ Len(r.call) = 1
         /\ r.call[1].argc = 1
         /\ r.call[1].func = argv[1]
         /\ r.call[1].this = JS_NULL
         /\ r.call[1].args = <<argv[2]>>
         /\ r.kind = callee.kind /\ r.exc = callee.exc /\ r.val = callee.val

\* C22: js_rectangle_call checks for 3 stack slots first and, without them,
\* returns the exception signal having pushed nothing; otherwise it pushes
\* argv[1], argv[0] and null and makes one call with argument count 1, which
\* invokes argv[0] with receiver null and the single argument argv[1], and
\* returns the call's result or exception unchanged.
C22_RectangleCallProtocol ==
    /\ \A argv \in js_rectangle_call_argv, stackOK \in BOOLEAN,
          callee \in CalleeOutcomes :
          CallProtocol(js_rectangle_call(argv, stackOK, callee),
                       argv, stackOK, callee)
    /\ ret.fn = "js_rectangle_call" =>
          \E stackOK \in BOOLEAN, callee \in CalleeOutcomes :
             CallProtocol(ret, ret.argv, stackOK, callee)

\* the function passed was invoked with the argument 3 and threw
C22_Witness ==
    /\ ret.fn = "js_rectangle_call"
    /\ ret.argv = <<FunctionValue, Num(0, 3)>>
    /\ Len(ret.call) = 1
    /\ ret.call[1].func = FunctionValue
    /\ ret.kind = "exception"
    /\ ret.exc = "Error"

\* the constructor of the live instance o has returned it to script, which
\* still holds it
Constructed(o) ==
    /\ o \in roots
    /\ heap[o].alive
    /\ heap[o].opaque \in DOMAIN blocks
    /\ \A i \in DOMAIN frames : Instance(frames[i]) # o

Getters ==
    { "js_rectangle_get_x", "js_rectangle_get_y",
      "js_filled_rectangle_get_color" }

\* C23: a getter call changes no instance and no opaque block, and from the
\* return of its constructor until its finalization an instance keeps its
\* class id, its block and the x, y and color stored in it, so repeated
\* getter calls return the same values.
C23_ConstructedFieldsStable ==
    [][/\ (ret'.fn \in Getters /\ ret' # ret) => UNCHANGED <<heap, blocks>>
       /\ \A o \in DOMAIN heap :
             (Constructed(o) /\ ~crashed' /\ heap'[o].alive) =>
                /\ heap'[o].class_id = heap[o].class_id
                /\ heap'[o].opaque = heap[o].opaque
                /\ blocks'[heap[o].opaque].mem = blocks[heap[o].opaque].mem]_vars

====
